---- MODULE Spec2Model ----
\* A model of the fetch router (src/src/fetchRouter.ts), the engine client
\* with its persistent sendMessage (src/unnamed/part_010, engine.ts) and the
\* IndexedDB conversation store (src/unnamed/part_009, db.ts).
\*
\* One IndexedDB transaction is one atomic step; every `await` of the source
\* is a step boundary at which other requests and store calls may run.
EXTENDS Integers, Sequences, FiniteSets, TLC

VARIABLES
    globalFetch,      \* globalThis.fetch: the function currently installed
    originalFetch,    \* fetchRouter.ts _originalFetch
    routerEngine,     \* fetchRouter.ts _engine
    preInstallFetch,  \* history: globalThis.fetch as read by the install that built the wrapper
    wrapperCount,     \* how many wrapper closures installFetchRouter has built
    lastOp,           \* history: the last operation on the router or on globalThis.fetch
    reinstalled,      \* history: an install has hit the already-installed branch since the wrapper was built
    origCalls,        \* history: the calls made to the original fetch
    req,              \* the fetch calls in flight, one record per call
    conversations,    \* object store "conversations": id -> record
    messages,         \* object store "messages": the set of message records
    usedConvIds,      \* the conversation ids crypto.randomUUID() has handed out
    usedMsgIds,       \* the message ids crypto.randomUUID() has handed out
    now,              \* Date.now()
    proc,             \* direct callers of ConversationDB, one record per caller
    opCount,          \* how many ConversationDB calls the direct callers have started
    clientEngine,     \* engine.ts _engine
    currentModelId,   \* engine.ts _currentModelId
    dbOpen,           \* whether the shared ConversationDB handle (engine.ts _db) is open
    dbs,              \* the ConversationDB instances: engine.ts _db, and each instance's this.db
    window,           \* a direct call of applySlidingWindow: its arguments and its result
    faults,           \* how many calls of the store or the engine have failed
    chunkCount        \* how many chunks the engine has emitted

routerVars == <<globalFetch, originalFetch, routerEngine, preInstallFetch,
                wrapperCount, lastOp, reinstalled>>

reqVars == <<origCalls, req>>

storeVars == <<conversations, messages, usedConvIds, usedMsgIds, now>>

procVars == <<proc, opCount>>

engVars == <<clientEngine, currentModelId, dbOpen, dbs, window>>

envVars == <<faults, chunkCount>>

vars == <<routerVars, reqVars, storeVars, procVars, engVars, envVars>>

-----------------------------------------------------------------------------
\* Bounds of the model.

\* how many wrapper closures may be built in one behaviour
MaxWrappers == 2

\* how many fetch calls are issued in one behaviour
MaxFetches == 1

Reqs == 1..MaxFetches

\* how many messages the store may hold (the pool of message ids)
MaxMsgs == 4

\* how far Date.now() advances
MaxClock == 3

\* how many direct callers of ConversationDB run concurrently
MaxProcs == 2

\* how many ConversationDB calls the direct callers start in one behaviour
MaxStoreOps == 4

Procs == 1..MaxProcs

\* how many chat completions are requested in one behaviour
MaxCompletions == 1

\* how many chunks the engine emits in one behaviour
MaxChunks == 2

\* how many calls of the store or the engine fail in one behaviour
MaxFaults == 1

\* how many segments the path of a fetched URL has at most
MaxPathLen == 4

\* how many messages a list handed to applySlidingWindow directly has at most
MaxListLen == 4

\* the largest maxMessages handed to applySlidingWindow directly
MaxWindow == 3

\* how many fetch calls are in flight at once when their interleavings are explored
MaxConcurrent == 2

\* how many ConversationDB instances getDB() constructs in one behaviour
MaxDbs == 2

ChatReqs == 1..MaxCompletions

-----------------------------------------------------------------------------
\* Values.

Null == "null"

\* Engine handles; the tests also install a null engine.
Engines == {"E1", "E2"}

\* Function identities. A wrapper is a closure, so each install that builds
\* one yields a new identity.
NoFn == [kind |-> "null", n |-> 0]
NativeFetch == [kind |-> "native", n |-> 0]
MockFetch == [kind |-> "mock", n |-> 0]
Wrapper(n) == [kind |-> "wrapper", n |-> n]
EnvFetches == {NativeFetch, MockFetch}
IsWrapper(f) == f.kind = "wrapper"

\* A URL as the wrapper sees it: whether `new URL(url, base)` parses it, its
\* host ("" for a relative URL) and the segments of its pathname.
Url(valid, host, path) == [valid |-> valid, host |-> host, path |-> path]

Urls ==
    { Url(TRUE, "", <<"v1", "chat", "completions">>),
      Url(TRUE, "api.openai.com", <<"v1", "chat", "completions">>),
      Url(TRUE, "", <<"v1", "models">>),
      Url(TRUE, "", <<"v1", "conversations">>),
      Url(TRUE, "", <<"v1", "conversations", "c1">>),
      Url(TRUE, "", <<"v1", "conversations", "c1", "messages">>),
      Url(TRUE, "", <<"v1", "embeddings">>),
      Url(TRUE, "example.com", <<"api", "data">>),
      Url(FALSE, "", <<"v1", "models">>) }

\* The first argument of fetch: a string, a URL object or a Request object.
InputKinds == {"string", "URL", "Request"}
Inputs == [kind : InputKinds, url : Urls]

ChatInputs == {[kind |-> "string", url |-> Url(TRUE, "", <<"v1", "chat", "completions">>)]}

\* A chat message of a request body or of the engine's input.
ChatMessage(role, content) == [role |-> role, content |-> content]

\* A field of a body that is not there (undefined).
Unset == "#unset"

\* The generation parameters of a request body, none of them given.
NoParams ==
    [temperature |-> Unset, top_p |-> Unset, max_tokens |-> Unset,
     max_completion_tokens |-> Unset, frequency_penalty |-> Unset,
     presence_penalty |-> Unset, stop |-> Unset, n |-> Unset, stream_options |-> Unset]

\* The title of a body that has none (undefined); a title is a text.
NoTitle == <<"#unset">>

\* A request body: whether it parses as JSON, and the fields the handlers read.
Body(stream, conversationId, persist, msgs) ==
    [json |-> TRUE, stream |-> stream, conversation_id |-> conversationId,
     persist |-> persist, hasMessages |-> TRUE, messages |-> msgs, params |-> NoParams,
     title |-> NoTitle, model_id |-> Unset]

\* The body with generation parameters.
WithParams(body, params) == [body EXCEPT !.params = params]

\* A JSON body without a messages field: body.messages is undefined.
NoMessages(stream, persist) ==
    [Body(stream, Null, persist, <<>>) EXCEPT !.hasMessages = FALSE]

\* No body, or one that is not JSON: request.json() throws.
NoBody ==
    [json |-> FALSE, stream |-> FALSE, conversation_id |-> Null, persist |-> FALSE,
     hasMessages |-> FALSE, messages |-> <<>>, params |-> NoParams,
     title |-> NoTitle, model_id |-> Unset]

\* The second argument of fetch (the RequestInit), or none.
NoInit == [given |-> FALSE, method |-> "GET", body |-> NoBody]
PostInit(body) == [given |-> TRUE, method |-> "POST", body |-> body]
MethodInit(method, body) == [given |-> TRUE, method |-> method, body |-> body]
Inits == {NoInit, PostInit(NoBody)}

\* The chat completions the model requests: plain and persistent, streaming
\* and not, with and without a conversation id and a system prompt.
UserOnly == <<ChatMessage("user", <<"h">>)>>
SystemAndUser == <<ChatMessage("system", <<"s">>), ChatMessage("user", <<"h">>)>>

ChatBodies ==
    { Body(TRUE, Null, FALSE, UserOnly),
      Body(FALSE, Null, FALSE, UserOnly),
      Body(TRUE, Null, TRUE, SystemAndUser),
      Body(FALSE, Null, TRUE, UserOnly),
      Body(TRUE, "c1", FALSE, UserOnly),
      Body(FALSE, "c1", FALSE, SystemAndUser),
      Body(TRUE, Null, TRUE, <<ChatMessage("system", <<"s">>)>>),
      NoMessages(FALSE, FALSE),
      NoMessages(FALSE, TRUE) }

ChatInits == {PostInit(b) : b \in ChatBodies}

\* Plain completions with generation parameters: all of them given, and
\* the output limit given under its newer name only.
AllParams ==
    [temperature |-> "0.7", top_p |-> "0.9", max_tokens |-> "100",
     max_completion_tokens |-> "200", frequency_penalty |-> "0.1",
     presence_penalty |-> "0.2", stop |-> "END", n |-> "1",
     stream_options |-> "include_usage"]
NewLimitOnly == [NoParams EXCEPT !.max_completion_tokens = "200"]

ParamInits ==
    {PostInit(WithParams(Body(stream, Null, FALSE, UserOnly), params)) :
        stream \in BOOLEAN, params \in {AllParams, NewLimitOnly}}

-----------------------------------------------------------------------------
\* shouldIntercept

EndsWith(path, suffix) ==
    /\ Len(path) >= Len(suffix)
    /\ SubSeq(path, Len(path) - Len(suffix) + 1, Len(path)) = suffix

NoMatch == [match |-> FALSE, route |-> "", id |-> Null]
Match(route, id) == [match |-> TRUE, route |-> route, id |-> id]

\* /\/v1\/conversations\/([^/]+)\/messages$/
MsgMatch(path) ==
    /\ Len(path) >= 4
    /\ path[Len(path)] = "messages"
    /\ path[Len(path) - 1] # ""
    /\ path[Len(path) - 2] = "conversations"
    /\ path[Len(path) - 3] = "v1"

\* A plausible slip: ([^/]*) in place of ([^/]+).
ConvIdMatch_AllowsEmpty(path) ==
    /\ Len(path) >= 3
    /\ path[Len(path) - 1] = "conversations"
    /\ path[Len(path) - 2] = "v1"

\* /\/v1\/conversations\/([^/]+)$/
ConvIdMatch(path) ==
    /\ Len(path) >= 3
    /\ path[Len(path)] # ""
    /\ path[Len(path) - 1] = "conversations"
    /\ path[Len(path) - 2] = "v1"

ShouldIntercept(url) ==
    IF ~url.valid THEN NoMatch
    ELSE LET path == url.path IN
         IF EndsWith(path, <<"v1", "chat", "completions">>)
           THEN Match("chat-completions", Null)
         ELSE IF EndsWith(path, <<"v1", "models">>)
           THEN Match("models", Null)
         ELSE IF MsgMatch(path)
           THEN Match("conversation-messages", path[Len(path) - 1])
         ELSE IF ConvIdMatch(path)
           THEN Match("conversation-detail", path[Len(path)])
         ELSE IF EndsWith(path, <<"v1", "conversations">>)
           THEN Match("conversations", Null)
         ELSE NoMatch

-----------------------------------------------------------------------------
\* Requests: one record per call of the wrapper.

\* What the original fetch returns for a call: it is opaque to the router,
\* so the result is named by the function and the arguments it was given.
OrigResult(fn, input, init) == [from |-> fn, input |-> input, init |-> init]

\* A Response: its status, whether its body is JSON text, an event stream or
\* the original fetch's, the text of the body so far as a sequence of
\* pieces, and whether the body is complete (the stream closed).
NoResp == [status |-> 0, kind |-> "none", body |-> <<>>, closed |-> FALSE]

\* Pieces of a body: literal text, and the JSON text of a value.
Tok(text) == [tok |-> text]
Json(value) == [json |-> value]

\* new Response(JSON.stringify(value), {status})
JsonResponse(status, value) ==
    [status |-> status, kind |-> "json", body |-> <<Json(value)>>, closed |-> TRUE]

\* { error: { message, type, code? } }
ErrorPayload(type, code) ==
    [error |-> [message |-> "message", type |-> type, code |-> code]]

\* A plausible slip: the client's error is reported as the server's.
InvalidRequest_AsServerError ==
    JsonResponse(500, ErrorPayload("server_error", Null))

\* 400 with { error: { message, type: "invalid_request_error" } }
InvalidRequest == JsonResponse(400, ErrorPayload("invalid_request_error", Null))

\* new Response(readable, {status: 200, "Content-Type": "text/event-stream"})
SseResponse == [status |-> 200, kind |-> "sse", body |-> <<>>, closed |-> FALSE]

\* `data: ${JSON.stringify(value)}\n\n`
SseData(value) == <<Tok("data: "), Json(value), Tok("\n\n")>>

\* "data: [DONE]\n\n"
SseDone == <<Tok("data: "), Tok("[DONE]"), Tok("\n\n")>>

\* controller.enqueue(encoder.encode(data))
Enqueue(resp, data) == [resp EXCEPT !.body = @ \o data]

\* controller.close()
Close(resp) == [resp EXCEPT !.closed = TRUE]

\* The generation parameters engine.chat.completions.create is given.
NoCreateParams ==
    [temperature |-> Unset, top_p |-> Unset, max_tokens |-> Unset,
     frequency_penalty |-> Unset, presence_penalty |-> Unset, stop |-> Unset,
     n |-> Unset, stream_options |-> Unset]

\* a ?? b
Coalesce(a, b) == IF a # Unset THEN a ELSE b

\* A plausible slip: the newer name of the output limit is preferred.
CreateParams_NewLimitFirst(body) ==
    [temperature |-> body.params.temperature,
     top_p |-> body.params.top_p,
     max_tokens |-> Coalesce(body.params.max_completion_tokens, body.params.max_tokens),
     frequency_penalty |-> body.params.frequency_penalty,
     presence_penalty |-> body.params.presence_penalty,
     stop |-> body.params.stop,
     n |-> body.params.n,
     stream_options |-> IF body.stream THEN body.params.stream_options ELSE Unset]

\* The parameters the plain handlers pass on: each under its own name,
\* max_tokens as body.max_tokens ?? body.max_completion_tokens, and
\* stream_options when streaming.
CreateParams(body) ==
    [temperature |-> body.params.temperature,
     top_p |-> body.params.top_p,
     max_tokens |-> Coalesce(body.params.max_tokens, body.params.max_completion_tokens),
     frequency_penalty |-> body.params.frequency_penalty,
     presence_penalty |-> body.params.presence_penalty,
     stop |-> body.params.stop,
     n |-> body.params.n,
     stream_options |-> IF body.stream THEN body.params.stream_options ELSE Unset]

\* The parameters sendMessage passes on: the temperature and the output
\* limit handlePersistentCompletion hands it (1024 by default), and usage
\* reporting.
SendMessageParams(body) ==
    [NoCreateParams EXCEPT
        !.temperature = body.params.temperature,
        !.max_tokens = Coalesce(Coalesce(body.params.max_tokens,
                                         body.params.max_completion_tokens), "1024"),
        !.stream_options = "include_usage"]

NoEngineArgs ==
    [engine |-> Null, messages |-> <<>>, stream |-> FALSE, params |-> NoCreateParams]

\* The value of a call that has not resolved.
NoResult == [object |-> Null, content |-> <<>>]

\* The conversation record that is not there (undefined).
NoConv == [id |-> Null, title |-> <<>>, modelId |-> Null, createdAt |-> 0, updatedAt |-> 0]

\* The fields of an update, none given.
NoFields == [keys |-> {}, title |-> <<>>, modelId |-> Null, updatedAt |-> 0]

IdleReq ==
    [pc |-> "idle", input |-> [kind |-> "string", url |-> Url(FALSE, "", <<>>)],
     init |-> NoInit, route |-> "", id |-> Null, handler |-> "none",
     resp |-> NoResp,
     body |-> NoBody,            \* the parsed request body
     convId |-> Null,            \* sendMessage's convId
     created |-> FALSE,          \* history: sendMessage created the conversation
     history |-> <<>>,           \* storedMessages
     existing |-> NoConv,        \* the record getConversation resolved to
     fields |-> NoFields,        \* what updateConversation was given
     listed |-> <<>>,            \* deleteConversation's messages
     db |-> 0,                   \* the instance `await getDB()` resolved to
     checked |-> Null,           \* history: _engine when `if (!_engine)` was passed
     engineArgs |-> NoEngineArgs,\* what engine.chat.completions.create was given
     result |-> NoResult,        \* history: what the non-streaming call resolved to
     recv |-> <<>>,              \* history: the chunks the engine stream has yielded
     ended |-> FALSE,            \* history: the engine stream has reported done
     fullContent |-> <<>>,       \* persistedStream's accumulated text
     handlerContent |-> <<>>,    \* handlePersistentCompletion's accumulated text
     userMsgId |-> 0,            \* history: the id of the user message saved
     asstIds |-> {},             \* history: the ids of the assistant messages saved
     asstCalls |-> <<>>,         \* history: the content of each saveMessage(role=assistant) call
     thrown |-> "none",          \* history: the call that threw
     log |-> <<>>]               \* history: the calls made, in order

\* The ConversationDB instances. `ref` is engine.ts' _db: the number of the
\* instance getDB() hands out, 0 for null. `inst` holds, for each instance
\* getDB() has constructed, the state of its connection: "opening" while
\* open() is pending (this.db is null), "open", "failed" when open() has
\* rejected (this.db stays null) and "closed" after close(). `direct` is
\* the state of the instance a direct caller constructed and opened, and
\* `conn` counts the connections that instance has opened.
NoDbs == [ref |-> 0, inst |-> <<>>, direct |-> "open", conn |-> 1]

\* The state after createEngine: getDB() has opened the shared instance.
OpenDbs == [ref |-> 1, inst |-> <<"open">>, direct |-> "open", conn |-> 1]

\* ConversationDB.close(): if (this.db) { this.db.close(); this.db = null }
CloseInst(state) == IF state = "open" THEN "closed" ELSE state

\* destroyEngine: if (_db) { _db.close(); _db = null }
Released(d) ==
    IF d.ref = 0 THEN d
    ELSE [d EXCEPT !.ref = 0, !.inst[d.ref] = CloseInst(@)]

\* ensureOpen on the instance h: this.db is set.
HandleOpen(h) == h # 0 /\ dbs.inst[h] = "open"

\* isFetchRouterInstalled
IsFetchRouterInstalled == originalFetch # NoFn

-----------------------------------------------------------------------------
\* installFetchRouter / uninstallFetchRouter

\* A plausible slip: the early return of the already-installed branch is
\* missing, so a second install saves the wrapper as the original fetch.
InstallFetchRouter_NoGuard(engine) ==
    /\ wrapperCount < MaxWrappers
    /\ originalFetch' = globalFetch
    /\ preInstallFetch' = IF originalFetch # NoFn THEN preInstallFetch ELSE globalFetch
    /\ routerEngine' = engine
    /\ wrapperCount' = wrapperCount + 1
    /\ globalFetch' = Wrapper(wrapperCount + 1)
    /\ lastOp' = "install"
    /\ reinstalled' = (originalFetch # NoFn)
    /\ UNCHANGED <<reqVars, storeVars, procVars, engVars, envVars>>

InstallFetchRouter(engine) ==
    IF originalFetch # NoFn
    THEN \* already installed: just update the engine reference
         /\ routerEngine' = engine
         /\ lastOp' = "install"
         /\ reinstalled' = TRUE
         /\ UNCHANGED <<globalFetch, originalFetch, preInstallFetch, wrapperCount>>
         /\ UNCHANGED <<reqVars, storeVars, procVars, engVars, envVars>>
    ELSE /\ wrapperCount < MaxWrappers
         /\ originalFetch' = globalFetch
         /\ preInstallFetch' = globalFetch
         /\ routerEngine' = engine
         /\ wrapperCount' = wrapperCount + 1
         /\ globalFetch' = Wrapper(wrapperCount + 1)
         /\ lastOp' = "install"
         /\ reinstalled' = FALSE
         /\ UNCHANGED <<reqVars, storeVars, procVars, engVars, envVars>>

\* A plausible slip: the saved reference is dropped without being restored.
UninstallFetchRouter_NoRestore ==
    /\ originalFetch' = NoFn
    /\ routerEngine' = Null
    /\ lastOp' = IF originalFetch # NoFn THEN "uninstall" ELSE "uninstall-noop"
    /\ UNCHANGED <<globalFetch, preInstallFetch, wrapperCount, reinstalled>>
    /\ UNCHANGED <<reqVars, storeVars, procVars, engVars, envVars>>

UninstallFetchRouter ==
    /\ IF originalFetch # NoFn
       THEN /\ globalFetch' = originalFetch
            /\ originalFetch' = NoFn
       ELSE UNCHANGED <<globalFetch, originalFetch>>
    /\ routerEngine' = Null
    /\ lastOp' = IF originalFetch # NoFn THEN "uninstall" ELSE "uninstall-noop"
    /\ UNCHANGED <<preInstallFetch, wrapperCount, reinstalled>>
    /\ UNCHANGED <<reqVars, storeVars, procVars, engVars, envVars>>

\* The environment assigns globalThis.fetch (the tests' beforeEach/afterEach do,
\* while the router is not installed).
SetGlobalFetch(f) ==
    /\ originalFetch = NoFn
    /\ globalFetch # f
    /\ globalFetch' = f
    /\ lastOp' = "assign"
    /\ UNCHANGED <<originalFetch, routerEngine, preInstallFetch, wrapperCount,
                   reinstalled>>
    /\ UNCHANGED <<reqVars, storeVars, procVars, engVars, envVars>>

-----------------------------------------------------------------------------
\* The wrapper installed as globalThis.fetch.

\* typeof input === "string" ? input : input instanceof URL ? input.toString() : input.url
InputUrl(input) == input.url

\* A plausible slip: the init argument is not forwarded.
WrapperPassthrough_DropInit(r, input, init) ==
    /\ req[r].pc = "idle"
    /\ IsWrapper(globalFetch)
    /\ ~ShouldIntercept(InputUrl(input)).match
    /\ origCalls' = Append(origCalls,
                           [by |-> r, fn |-> originalFetch, input |-> input, init |-> NoInit])
    /\ req' = [req EXCEPT ![r] =
                 [@ EXCEPT !.pc = "done", !.input = input, !.init = init,
                           !.resp = [NoResp EXCEPT !.kind = "orig",
                                       !.body = <<OrigResult(originalFetch, input, NoInit)>>,
                                       !.closed = TRUE]]]
    /\ UNCHANGED <<routerVars, storeVars, procVars, engVars, envVars>>

\* if (!match) return _originalFetch!(input, init)
WrapperPassthrough(r, input, init) ==
    /\ req[r].pc = "idle"
    /\ IsWrapper(globalFetch)
    /\ ~ShouldIntercept(InputUrl(input)).match
    /\ origCalls' = Append(origCalls,
                           [by |-> r, fn |-> originalFetch, input |-> input, init |-> init])
    /\ req' = [req EXCEPT ![r] =
                 [@ EXCEPT !.pc = "done", !.input = input, !.init = init,
                           !.resp = [NoResp EXCEPT !.kind = "orig",
                                       !.body = <<OrigResult(originalFetch, input, init)>>,
                                       !.closed = TRUE]]]
    /\ UNCHANGED <<routerVars, storeVars, procVars, engVars, envVars>>

\* handleModels: { object: "list", data: models }
HandleModels == JsonResponse(200, [object |-> "list", data |-> "model_list"])

\* A plausible slip: the engine client's engine is tested, not the router's.
WrapperDispatch_ClientEngine(r, input, init) ==
    /\ req[r].pc = "idle"
    /\ IsWrapper(globalFetch)
    /\ LET m == ShouldIntercept(InputUrl(input)) IN
       /\ m.match
       /\ req' = [req EXCEPT ![r] =
                    [@ EXCEPT !.pc = IF m.route = "models" THEN "done"
                                     ELSE IF m.route # "chat-completions" THEN "handler"
                                     ELSE IF clientEngine = Null THEN "done"
                                     ELSE "cc_json",
                              !.input = input, !.init = init,
                              !.route = m.route, !.id = m.id, !.handler = m.route,
                              !.resp = IF m.route = "models" THEN HandleModels
                                       ELSE IF m.route = "chat-completions" /\ clientEngine = Null
                                       THEN JsonResponse(503, ErrorPayload("server_error",
                                                                           "engine_not_ready"))
                                       ELSE NoResp]]
    /\ UNCHANGED <<routerVars, origCalls, storeVars, procVars, engVars, envVars>>

\* switch (route): the handler of the route is started and runs to its first
\* await. handleModels returns at once; handleChatCompletions answers 503
\* when the router has no engine and otherwise awaits request.json().
WrapperDispatch(r, input, init) ==
    /\ req[r].pc = "idle"
    /\ IsWrapper(globalFetch)
    /\ LET m == ShouldIntercept(InputUrl(input)) IN
       /\ m.match
       /\ req' = [req EXCEPT ![r] =
                    [@ EXCEPT !.pc = IF m.route = "models" THEN "done"
                                     ELSE IF m.route # "chat-completions" THEN "handler"
                                     ELSE IF routerEngine = Null THEN "done"
                                     ELSE "cc_json",
                              !.input = input, !.init = init,
                              !.route = m.route, !.id = m.id, !.handler = m.route,
                              !.checked = IF m.route = "chat-completions" THEN routerEngine
                                          ELSE Null,
                              !.resp = IF m.route = "models" THEN HandleModels
                                       ELSE IF m.route = "chat-completions" /\ routerEngine = Null
                                       THEN JsonResponse(503, ErrorPayload("server_error",
                                                                           "engine_not_ready"))
                                       ELSE NoResp]]
    /\ UNCHANGED <<routerVars, origCalls, storeVars, procVars, engVars, envVars>>

-----------------------------------------------------------------------------
\* ConversationDB (db.ts). A transaction takes effect atomically when it is
\* created: IndexedDB runs transactions with overlapping scopes in the order
\* of their creation, so a later call never sees an earlier one half done.

\* The ids crypto.randomUUID() can return for conversations and for messages.
\* A message id is a number so that the index's tie-break (the primary key)
\* is defined; which unused id a call gets is not determined.
ConvIds == {"c1", "c2"}
MsgIds == 1..MaxMsgs

\* The string a caller never provides; what `undefined` becomes in a record.
Undefined == <<"#undefined">>

Titles == {<<"t">>, <<"n">>}
ModelIds == {"m1", "m2"}

PutConv(convs, rec) ==
    [i \in DOMAIN convs \cup {rec.id} |-> IF i = rec.id THEN rec ELSE convs[i]]

DeleteConv(convs, id) == [i \in DOMAIN convs \ {id} |-> convs[i]]

\* getConversation: req.result ?? undefined
GetConversation(id) ==
    IF id \in DOMAIN conversations THEN conversations[id] ELSE NoConv

\* The order of index "convTimestamp" within one conversation: by timestamp,
\* and among equal keys by the primary key (the message id).
MsgBefore(a, b) ==
    \/ a.timestamp < b.timestamp
    \/ a.timestamp = b.timestamp /\ a.id < b.id

RECURSIVE SortMsgs(_)
SortMsgs(S) ==
    IF S = {} THEN <<>>
    ELSE LET m == CHOOSE x \in S : \A y \in S \ {x} : MsgBefore(x, y)
         IN <<m>> \o SortMsgs(S \ {m})

\* A plausible slip: the range spans every conversation's keys.
InRange_AnyConversation(m, conversationId) == m.timestamp >= 0

\* IDBKeyRange.bound([conversationId, 0], [conversationId, Number.MAX_SAFE_INTEGER])
\* over the keys [conversationId, timestamp] of index "convTimestamp".
InRange(m, conversationId) ==
    /\ m.conversationId = conversationId
    /\ m.timestamp >= 0

\* getMessages: the cursor over the range, in the order of the index
GetMessages(conversationId) ==
    SortMsgs({m \in messages : InRange(m, conversationId)})

\* getMessageCount: index.count(range)
GetMessageCount(conversationId) ==
    Cardinality({m \in messages : InRange(m, conversationId)})

\* history: the place of the next message in the order of the saves
NextSeq ==
    IF messages = {} THEN 1
    ELSE 1 + (CHOOSE n \in {m.seq : m \in messages} : \A m \in messages : m.seq <= n)

\* saveMessage's transaction: msgStore.add(record), then the parent's
\* updatedAt is set to the message's timestamp if the parent exists.
SaveMessageConvs(record) ==
    IF record.conversationId \in DOMAIN conversations
    THEN PutConv(conversations,
                 [conversations[record.conversationId] EXCEPT !.updatedAt = record.timestamp])
    ELSE conversations

\* { ...existing, ...fields }: every key that fields carries overrides.
MergeFields(existing, fields) ==
    [existing EXCEPT
        !.title = IF "title" \in fields.keys THEN fields.title ELSE @,
        !.modelId = IF "modelId" \in fields.keys THEN fields.modelId ELSE @,
        !.updatedAt = IF "updatedAt" \in fields.keys THEN fields.updatedAt ELSE @]

\* The field sets callers pass to updateConversation: the tests pass a title
\* alone, handleConversationDetail passes title, modelId and updatedAt: Date.now().
UpdateFields ==
    { [keys |-> {"title"}, title |-> <<"n">>, modelId |-> Null, updatedAt |-> 0],
      [keys |-> {"title", "modelId", "updatedAt"}, title |-> <<"n">>,
       modelId |-> "m2", updatedAt |-> now] }

IdleProc ==
    [pc |-> "idle", op |-> "none", id |-> Null, fields |-> [keys |-> {}, title |-> <<>>,
     modelId |-> Null, updatedAt |-> 0], existing |-> NoConv, msgs |-> <<>>,
     conn |-> 0,                 \* the connection ensureOpen() returned
     result |-> "none"]

\* The operations of ConversationDB, each of which starts with
\* `const db = this.ensureOpen()`.
StoreOps ==
    {"createConversation", "listConversations", "getConversation", "updateConversation",
     "deleteConversation", "saveMessage", "getMessages", "getMessageCount", "clearAll"}

\* The operations that read only.
Queries == {"listConversations", "getConversation", "getMessages", "getMessageCount"}

\* ensureOpen of the instance a direct caller holds: this.db is set.
EnsureOpen == dbs.direct = "open"

\* The connection an operation got from ensureOpen is still the open one:
\* transaction() of a closed connection throws.
Connected(p) == EnsureOpen /\ proc[p].conn = dbs.conn

\* A plausible slip: an operation on a closed database resolves and does nothing.
DbNotOpen_Silent(p, op) ==
    /\ proc[p].pc = "idle"
    /\ opCount < MaxStoreOps
    /\ ~EnsureOpen
    /\ proc' = [proc EXCEPT ![p] = [IdleProc EXCEPT !.op = op, !.result = "ok"]]
    /\ opCount' = opCount + 1
    /\ UNCHANGED <<storeVars, routerVars, reqVars, engVars, envVars>>

\* An operation called while this.db is null: ensureOpen throws "Database
\* not open. Call open() first." before any transaction is made.
DbNotOpen(p, op) ==
    /\ proc[p].pc = "idle"
    /\ opCount < MaxStoreOps
    /\ ~EnsureOpen
    /\ proc' = [proc EXCEPT ![p] = [IdleProc EXCEPT !.op = op, !.result = "notopen"]]
    /\ opCount' = opCount + 1
    /\ UNCHANGED <<storeVars, routerVars, reqVars, engVars, envVars>>

\* listConversations, getConversation, getMessages, getMessageCount: one
\* read-only transaction.
DbQuery(p, op) ==
    /\ proc[p].pc = "idle"
    /\ opCount < MaxStoreOps
    /\ EnsureOpen
    /\ proc' = [proc EXCEPT ![p] = [IdleProc EXCEPT !.op = op, !.result = "ok"]]
    /\ opCount' = opCount + 1
    /\ UNCHANGED <<storeVars, routerVars, reqVars, engVars, envVars>>

\* clearAll: one transaction clears both stores.
DbClearAll(p) ==
    /\ proc[p].pc = "idle"
    /\ opCount < MaxStoreOps
    /\ EnsureOpen
    /\ conversations' = <<>>
    /\ messages' = {}
    /\ proc' = [proc EXCEPT ![p] = [IdleProc EXCEPT !.op = "clearAll", !.result = "ok"]]
    /\ opCount' = opCount + 1
    /\ UNCHANGED <<usedConvIds, usedMsgIds, now, routerVars, reqVars, engVars, envVars>>

\* close(): if (this.db) { this.db.close(); this.db = null }
DbClose ==
    /\ dbs' = [dbs EXCEPT !.direct = CloseInst(@)]
    /\ UNCHANGED <<clientEngine, currentModelId, dbOpen, window, routerVars, reqVars,
                   storeVars, procVars, envVars>>

\* open() after close(): this.db is null, indexedDB.open is requested.
DbOpen ==
    /\ dbs.direct = "closed"
    /\ dbs.conn < MaxDbs
    /\ dbs' = [dbs EXCEPT !.direct = "opening"]
    /\ UNCHANGED <<clientEngine, currentModelId, dbOpen, window, routerVars, reqVars,
                   storeVars, procVars, envVars>>

\* request.onsuccess: this.db is the new connection.
DbOpened ==
    /\ dbs.direct = "opening"
    /\ dbs' = [dbs EXCEPT !.direct = "open", !.conn = @ + 1]
    /\ UNCHANGED <<clientEngine, currentModelId, dbOpen, window, routerVars, reqVars,
                   storeVars, procVars, envVars>>

\* createConversation
DbCreateConversation(p, title, modelId) ==
    /\ proc[p].pc = "idle"
    /\ opCount < MaxStoreOps
    /\ EnsureOpen
    /\ \E id \in ConvIds \ usedConvIds :
         /\ conversations' = PutConv(conversations,
                [id |-> id, title |-> title, modelId |-> modelId,
                 createdAt |-> now, updatedAt |-> now])
         /\ usedConvIds' = usedConvIds \cup {id}
         /\ proc' = [proc EXCEPT ![p] = [IdleProc EXCEPT !.result = "ok"]]
    /\ opCount' = opCount + 1
    /\ UNCHANGED <<messages, usedMsgIds, now, routerVars, reqVars, engVars, envVars>>

\* saveMessage({conversationId, role, content, timestamp})
DbSaveMessageAt(p, conversationId, role, content, timestamp) ==
    /\ proc[p].pc = "idle"
    /\ opCount < MaxStoreOps
    /\ EnsureOpen
    /\ \E id \in MsgIds \ usedMsgIds :
         LET record == [id |-> id, conversationId |-> conversationId, role |-> role,
                        content |-> content, timestamp |-> timestamp, seq |-> NextSeq]
         IN /\ messages' = messages \cup {record}
            /\ conversations' = SaveMessageConvs(record)
            /\ usedMsgIds' = usedMsgIds \cup {id}
    /\ proc' = [proc EXCEPT ![p] = [IdleProc EXCEPT !.result = "ok"]]
    /\ opCount' = opCount + 1
    /\ UNCHANGED <<usedConvIds, now, routerVars, reqVars, engVars, envVars>>

\* saveMessage, called with timestamp: Date.now()
DbSaveMessage(p, conversationId, role, content) ==
    DbSaveMessageAt(p, conversationId, role, content, now)

\* updateConversation up to its await: const existing = await this.getConversation(id)
DbUpdateRead(p, id, fields) ==
    /\ proc[p].pc = "idle"
    /\ opCount < MaxStoreOps
    /\ EnsureOpen
    /\ proc' = [proc EXCEPT ![p] = [IdleProc EXCEPT !.pc = "upd_read", !.op = "update",
                                                    !.id = id, !.fields = fields,
                                                    !.conn = dbs.conn,
                                                    !.existing = GetConversation(id)]]
    /\ opCount' = opCount + 1
    /\ UNCHANGED <<storeVars, routerVars, reqVars, engVars, envVars>>

\* updateConversation after its await: throw if absent, else store.put(updated)
\* in a transaction of the connection, which throws when close() has closed it.
DbUpdateWrite(p) ==
    /\ proc[p].pc = "upd_read"
    /\ IF proc[p].existing.id = Null
       THEN /\ proc' = [proc EXCEPT ![p] = [IdleProc EXCEPT !.result = "notfound"]]
            /\ UNCHANGED conversations
       ELSE IF ~Connected(p)
       THEN /\ proc' = [proc EXCEPT ![p] = [IdleProc EXCEPT !.result = "closed"]]
            /\ UNCHANGED conversations
       ELSE /\ conversations' = PutConv(conversations,
                                        MergeFields(proc[p].existing, proc[p].fields))
            /\ proc' = [proc EXCEPT ![p] = [IdleProc EXCEPT !.result = "ok"]]
    /\ UNCHANGED <<messages, usedConvIds, usedMsgIds, now, opCount, routerVars, reqVars, engVars, envVars>>

\* deleteConversation up to its await: const messages = await this.getMessages(id)
DbDeleteRead(p, id) ==
    /\ proc[p].pc = "idle"
    /\ opCount < MaxStoreOps
    /\ EnsureOpen
    /\ proc' = [proc EXCEPT ![p] = [IdleProc EXCEPT !.pc = "del_read", !.op = "delete",
                                                    !.id = id, !.msgs = GetMessages(id),
                                                    !.conn = dbs.conn]]
    /\ opCount' = opCount + 1
    /\ UNCHANGED <<storeVars, routerVars, reqVars, engVars, envVars>>

\* deleteConversation after its await: one transaction deletes the
\* conversation and the messages that were read.
DbDeleteWrite(p) ==
    /\ proc[p].pc = "del_read"
    /\ IF ~Connected(p)
       THEN /\ proc' = [proc EXCEPT ![p] = [IdleProc EXCEPT !.result = "closed"]]
            /\ UNCHANGED <<conversations, messages>>
       ELSE /\ conversations' = DeleteConv(conversations, proc[p].id)
            /\ messages' = {m \in messages :
                               \A i \in DOMAIN proc[p].msgs : proc[p].msgs[i].id # m.id}
            /\ proc' = [proc EXCEPT ![p] = [IdleProc EXCEPT !.result = "ok"]]
    /\ UNCHANGED <<usedConvIds, usedMsgIds, now, opCount, routerVars, reqVars, engVars, envVars>>

\* Time passes.
Tick ==
    /\ now < MaxClock
    /\ now' = now + 1
    /\ UNCHANGED <<conversations, messages, usedConvIds, usedMsgIds, routerVars, reqVars, procVars,
                   engVars, envVars>>

-----------------------------------------------------------------------------
\* The engine client (engine.ts) and the completion handlers (fetchRouter.ts).

\* DEFAULT_MAX_CONTEXT_MESSAGES
DEFAULT_MAX_CONTEXT_MESSAGES == 50

\* The length a conversation title is cut to.
TitleLength == 50

\* A plausible slip: >= in place of >.
TitleOf_MarksAtLimit(userContent) ==
    IF Len(userContent) >= TitleLength
    THEN SubSeq(userContent, 1, TitleLength) \o <<".", ".", ".">>
    ELSE userContent

\* userContent.slice(0, 50) + (userContent.length > 50 ? "..." : "")
TitleOf(userContent) ==
    IF Len(userContent) > TitleLength
    THEN SubSeq(userContent, 1, TitleLength) \o <<".", ".", ".">>
    ELSE userContent

\* messages.filter(pred), as the subsequence of the elements with the role (or without it)
RECURSIVE FilterRole(_, _, _)
FilterRole(msgs, role, keep) ==
    IF msgs = <<>> THEN <<>>
    ELSE LET rest == FilterRole(Tail(msgs), role, keep)
         IN IF (Head(msgs).role = role) = keep THEN <<Head(msgs)>> \o rest ELSE rest

\* A plausible slip: slice(0, maxMessages), the first messages are kept.
LastN_FromStart(msgs, n) ==
    IF Len(msgs) <= n THEN msgs ELSE SubSeq(msgs, 1, n)

\* nonSystemMessages.slice(-maxMessages)
LastN(msgs, n) ==
    IF n = 0 THEN msgs  \* slice(-0) is slice(0)
    ELSE IF Len(msgs) <= n THEN msgs
    ELSE SubSeq(msgs, Len(msgs) - n + 1, Len(msgs))

\* A plausible slip: [...trimmed, ...systemMessages].
ApplySlidingWindow_SystemsLast(msgs, maxMessages) ==
    IF Len(msgs) <= maxMessages THEN msgs
    ELSE LastN(FilterRole(msgs, "system", FALSE), maxMessages) \o FilterRole(msgs, "system", TRUE)

ApplySlidingWindow(msgs, maxMessages) ==
    IF Len(msgs) <= maxMessages THEN msgs
    ELSE FilterRole(msgs, "system", TRUE) \o LastN(FilterRole(msgs, "system", FALSE), maxMessages)

\* No direct call of applySlidingWindow.
NoWindow == [messages |-> <<>>, maxMessages |-> 0, result |-> <<>>, applied |-> FALSE]

\* const result = applySlidingWindow(messages, maxMessages): filter, slice
\* and the spread build new arrays, the caller's array is left as it is.
ApplyWindow ==
    /\ ~window.applied
    /\ window' = [window EXCEPT !.result = ApplySlidingWindow(window.messages, window.maxMessages),
                                !.applied = TRUE]
    /\ UNCHANGED <<clientEngine, currentModelId, dbOpen, dbs, routerVars, reqVars, storeVars,
                   procVars, envVars>>

\* The value standing for a message that is not there (undefined).
NoMessage == ChatMessage(Null, <<>>)

\* A plausible slip: the last message is taken, whatever its role.
LastUserMessage_AnyRole(msgs) ==
    IF msgs = <<>> THEN NoMessage ELSE msgs[Len(msgs)]

\* userMessages[userMessages.length - 1]
LastUserMessage(msgs) ==
    LET users == FilterRole(msgs, "user", TRUE)
    IN IF users = <<>> THEN NoMessage ELSE users[Len(users)]

\* (body.messages ?? []).find(m => m.role === "system")
SystemMessage(msgs) ==
    LET systems == FilterRole(msgs, "system", TRUE)
    IN IF systems = <<>> THEN NoMessage ELSE systems[1]

\* The chatMessages sendMessage builds: the system prompt if it is a
\* non-empty string, then the stored messages' role and content.
ChatMessages(systemPrompt, storedMessages) ==
    (IF systemPrompt # <<>> THEN <<ChatMessage("system", systemPrompt)>> ELSE <<>>)
    \o [i \in DOMAIN storedMessages |->
          ChatMessage(storedMessages[i].role, storedMessages[i].content)]

\* The chunks an engine stream can yield: a piece of text, the closing chunk
\* whose delta has no content, and the usage chunk whose choices are empty.
ContentChunk(text) ==
    [choices |-> <<[delta |-> [has |-> TRUE, content |-> text], finish_reason |-> Null]>>,
     usage |-> FALSE]
FinishChunk ==
    [choices |-> <<[delta |-> [has |-> FALSE, content |-> <<>>], finish_reason |-> "stop"]>>,
     usage |-> FALSE]
UsageChunk == [choices |-> <<>>, usage |-> TRUE]

Chunks == {ContentChunk(<<"a">>), ContentChunk(<<"b">>), FinishChunk, UsageChunk}

\* chunk.choices[0]?.delta?.content ?? ""
Delta(chunk) ==
    IF chunk.choices = <<>> THEN <<>>
    ELSE IF chunk.choices[1].delta.has THEN chunk.choices[1].delta.content
    ELSE <<>>

\* { ...chunk, conversation_id: convId }
Augmented(chunk, convId) ==
    [choices |-> chunk.choices, usage |-> chunk.usage, conversation_id |-> convId]

\* The body of the non-streaming persistent completion's response.
PersistentCompletion(model, convId, content) ==
    [object |-> "chat.completion", model |-> model, conversation_id |-> convId,
     choices |-> <<[index |-> 0, message |-> ChatMessage("assistant", content),
                    finish_reason |-> "stop"]>>]

\* What engine.chat.completions.create resolves to when stream is false.
EngineResults ==
    {[object |-> "chat.completion", content |-> <<"a">>],
     [object |-> "chat.completion", content |-> <<"b">>]}

\* { error: { message, type: "server_error" } }
ServerError == ErrorPayload("server_error", Null)

\* The frame of a step that changes one request only.
OnlyReq == UNCHANGED <<routerVars, origCalls, storeVars, procVars, engVars, envVars>>

\* The handler returns (or its stream closes) with the response.
Respond(q, resp) == [q EXCEPT !.pc = "done", !.resp = resp]

\* handleChatCompletions' catch: 500 with { error: { message, type: "server_error" } }
Caught(q, call) == [Respond(q, JsonResponse(500, ServerError)) EXCEPT !.thrown = call]

\* A plausible slip: the error frame is enqueued and the stream is left open.
StreamCaught_NoClose(q, call) ==
    [Respond(q, Enqueue(q.resp, SseData(ServerError))) EXCEPT !.thrown = call]

\* The catch of the ReadableStream's start: one error frame, then close.
StreamCaught(q, call) ==
    [Respond(q, Close(Enqueue(q.resp, SseData(ServerError)))) EXCEPT !.thrown = call]

\* A throw out of the stream of sendMessage reaches the catch of start when
\* the completion streams, and the catch of handleChatCompletions when not.
LoopCaught(q, call) == IF q.body.stream THEN StreamCaught(q, call) ELSE Caught(q, call)

IsPersistent(body) == body.conversation_id # Null \/ body.persist

\* The persistent completions that have been taken up.
Persistent == {r \in DOMAIN req : req[r].handler = "persistent"}

\* destroyEngine: the worker is terminated, the engine client forgets its
\* engine and model, and the database is closed.
DestroyEngine ==
    /\ faults < MaxFaults
    /\ clientEngine' = Null
    /\ currentModelId' = Null
    /\ dbOpen' = FALSE
    /\ dbs' = Released(dbs)
    /\ faults' = faults + 1
    /\ UNCHANGED <<routerVars, reqVars, storeVars, procVars, chunkCount, window>>

\* createEngine, when CreateWebWorkerMLCEngine has resolved to the engine e:
\* _engine = engine, _currentModelId = modelId, and getDB() is called, which
\* constructs an instance and starts its open() when _db is null.
CreateEngine(e, modelId) ==
    /\ dbs.ref = 0 => Len(dbs.inst) < MaxDbs
    /\ clientEngine' = e
    /\ currentModelId' = modelId
    /\ dbs' = IF dbs.ref # 0 THEN dbs
              ELSE [dbs EXCEPT !.ref = Len(dbs.inst) + 1, !.inst = Append(@, "opening")]
    /\ dbOpen' = (dbs.ref # 0 /\ dbOpen)
    /\ UNCHANGED <<window, routerVars, reqVars, storeVars, procVars, envVars>>

\* open() of the instance h: request.onsuccess sets this.db, also after
\* destroyEngine has let go of the instance (close() of an instance whose
\* this.db is null does nothing).
OpenSucceeded(h) ==
    /\ h \in DOMAIN dbs.inst
    /\ dbs.inst[h] = "opening"
    /\ dbs' = [dbs EXCEPT !.inst[h] = "open"]
    /\ dbOpen' = (dbs.ref = h \/ dbOpen)
    /\ UNCHANGED <<clientEngine, currentModelId, window, routerVars, reqVars, storeVars,
                   procVars, envVars>>

\* reloadModel, when engine.reload has resolved: _currentModelId = modelId
ReloadModel(modelId) ==
    /\ clientEngine # Null
    /\ currentModelId' = modelId
    /\ UNCHANGED <<clientEngine, dbOpen, dbs, window, routerVars, reqVars, storeVars, procVars,
                   envVars>>

\* handleChatCompletions after request.json(): the body is parsed and the
\* completion is handed to its handler, which runs to its first await.
\*  - persistent: the last user message is looked up and sendMessage is
\*    called, which throws without an engine and otherwise awaits getDB()
\*    (_db is set whenever _engine is: getDB() returns that instance);
\*  - streaming: the Response is returned and start calls the engine;
\*  - otherwise the engine is called and awaited.
HandleChatCompletions(r) ==
    /\ req[r].pc = "cc_json"
    /\ LET body == req[r].init.body
           q == [req[r] EXCEPT !.body = body]
       IN /\ IsPersistent(body) /\ body.json => Cardinality(Persistent) < MaxMsgs \div 2
          /\ req' = [req EXCEPT ![r] =
               IF ~body.json
               THEN Respond(q, InvalidRequest)
               ELSE IF IsPersistent(body)
               THEN IF LastUserMessage(body.messages) = NoMessage
                    THEN Respond(q, InvalidRequest)
                    ELSE IF clientEngine = Null
                    THEN Caught([q EXCEPT !.handler = "persistent"], "sendMessage")
                    ELSE [q EXCEPT !.handler = "persistent", !.pc = "sm_getdb",
                                   !.db = dbs.ref,
                                   !.engineArgs.engine = clientEngine]
               ELSE IF body.stream
               THEN IF routerEngine = Null
                    THEN StreamCaught([q EXCEPT !.handler = "streaming", !.resp = SseResponse],
                                      "engineCreate")
                    ELSE [q EXCEPT !.handler = "streaming", !.pc = "st_create",
                                   !.resp = SseResponse,
                                   !.engineArgs = [engine |-> routerEngine,
                                                   messages |-> body.messages, stream |-> TRUE,
                                                   params |-> CreateParams(body)],
                                   !.log = Append(@, "engineCreate")]
               ELSE IF routerEngine = Null
                    THEN Caught([q EXCEPT !.handler = "non-streaming"], "engineCreate")
                    ELSE [q EXCEPT !.handler = "non-streaming", !.pc = "ns_create",
                                   !.engineArgs = [engine |-> routerEngine,
                                                   messages |-> body.messages, stream |-> FALSE,
                                                   params |-> CreateParams(body)],
                                   !.log = Append(@, "engineCreate")]]
    /\ OnlyReq

\* A plausible slip: the user message is not saved before the history is loaded.
SaveUserMessage_Deferred(r, q, convId) ==
    /\ req' = [req EXCEPT ![r] = [q EXCEPT !.pc = "sm_saved", !.convId = convId]]
    /\ UNCHANGED storeVars

\* await db.saveMessage({conversationId: convId, role: "user", content:
\* userContent, timestamp: Date.now()}): ensureOpen throws on a closed
\* database, otherwise the transaction stores the message.
SaveUserMessage(r, q, convId) ==
    IF ~HandleOpen(q.db)
    THEN /\ req' = [req EXCEPT ![r] = Caught(q, "saveUser")]
         /\ UNCHANGED storeVars
    ELSE \E id \in MsgIds \ usedMsgIds :
           LET record == [id |-> id, conversationId |-> convId, role |-> "user",
                          content |-> LastUserMessage(q.body.messages).content,
                          timestamp |-> now, seq |-> NextSeq]
           IN /\ messages' = messages \cup {record}
              /\ conversations' = SaveMessageConvs(record)
              /\ usedMsgIds' = usedMsgIds \cup {id}
              /\ req' = [req EXCEPT ![r] = [q EXCEPT !.pc = "sm_saved", !.convId = convId,
                                                     !.userMsgId = id,
                                                     !.log = Append(@, "saveUser")]]
              /\ UNCHANGED <<usedConvIds, now>>

\* sendMessage after getDB(): without a conversation id a conversation is
\* created, titled by the user's text; with one the user message is saved.
SendMessageGetDB(r) ==
    /\ req[r].pc = "sm_getdb"
    /\ LET convId == req[r].body.conversation_id
           modelId == IF currentModelId = Null THEN "unknown" ELSE currentModelId
       IN IF convId # Null
          THEN SaveUserMessage(r, req[r], convId)
          ELSE IF ~HandleOpen(req[r].db)
          THEN /\ req' = [req EXCEPT ![r] = Caught(@, "createConversation")]
               /\ UNCHANGED storeVars
          ELSE \E id \in ConvIds \ usedConvIds :
                 /\ conversations' = PutConv(conversations,
                        [id |-> id,
                         title |-> TitleOf(LastUserMessage(req[r].body.messages).content),
                         modelId |-> modelId, createdAt |-> now, updatedAt |-> now])
                 /\ usedConvIds' = usedConvIds \cup {id}
                 /\ req' = [req EXCEPT ![r] = [@ EXCEPT !.pc = "sm_created", !.convId = id,
                                                        !.created = TRUE]]
                 /\ UNCHANGED <<messages, usedMsgIds, now>>
    /\ UNCHANGED <<routerVars, origCalls, procVars, engVars, envVars>>

\* sendMessage after createConversation: the user message is saved.
SendMessageCreated(r) ==
    /\ req[r].pc = "sm_created"
    /\ SaveUserMessage(r, req[r], req[r].convId)
    /\ UNCHANGED <<routerVars, origCalls, procVars, engVars, envVars>>

\* sendMessage after the user message is saved: await db.getMessages(convId)
SendMessageUserSaved(r) ==
    /\ req[r].pc = "sm_saved"
    /\ req' = [req EXCEPT ![r] =
                 IF ~HandleOpen(req[r].db) THEN Caught(@, "getMessages")
                 ELSE [@ EXCEPT !.pc = "sm_history", !.history = GetMessages(req[r].convId),
                                !.log = Append(@, "getMessages")]]
    /\ OnlyReq

\* A plausible slip: the messages built are passed on without the window.
SendMessageHistory_NoWindow(r) ==
    /\ req[r].pc = "sm_history"
    /\ req' = [req EXCEPT ![r] =
                 [@ EXCEPT !.pc = "sm_create",
                           !.engineArgs.messages =
                               ChatMessages(SystemMessage(req[r].body.messages).content,
                                            req[r].history),
                           !.engineArgs.stream = TRUE,
                           !.engineArgs.params = SendMessageParams(req[r].body),
                           !.log = Append(@, "engineCreate")]]
    /\ OnlyReq

\* sendMessage after the history is loaded: the messages for the model are
\* built and windowed and engine.chat.completions.create is called.
SendMessageHistory(r) ==
    /\ req[r].pc = "sm_history"
    /\ req' = [req EXCEPT ![r] =
                 [@ EXCEPT !.pc = "sm_create",
                           !.engineArgs.messages =
                               ApplySlidingWindow(
                                   ChatMessages(SystemMessage(req[r].body.messages).content,
                                                req[r].history),
                                   DEFAULT_MAX_CONTEXT_MESSAGES),
                           !.engineArgs.stream = TRUE,
                           !.engineArgs.params = SendMessageParams(req[r].body),
                           !.log = Append(@, "engineCreate")]]
    /\ OnlyReq

\* The engine's call resolves to a stream: sendMessage returns it wrapped in
\* persistedStream, and the handler starts to read it, in the body of the
\* Response it returns when the completion streams.
SendMessageEngine(r) ==
    /\ req[r].pc = "sm_create"
    /\ req' = [req EXCEPT ![r] =
                 [@ EXCEPT !.pc = "ps_loop",
                           !.resp = IF req[r].body.stream THEN SseResponse ELSE NoResp]]
    /\ OnlyReq

\* The engine's call rejects: sendMessage throws.
SendMessageEngineThrow(r) ==
    /\ req[r].pc = "sm_create"
    /\ faults < MaxFaults
    /\ faults' = faults + 1
    /\ req' = [req EXCEPT ![r] = Caught(@, "engineCreate")]
    /\ UNCHANGED <<routerVars, origCalls, storeVars, procVars, engVars, chunkCount>>

\* A plausible slip: fullContent = delta instead of fullContent += delta.
PersistedStreamChunk_Overwrites(r, chunk) ==
    /\ req[r].pc = "ps_loop"
    /\ chunkCount < MaxChunks
    /\ chunkCount' = chunkCount + 1
    /\ req' = [req EXCEPT ![r] =
                 [@ EXCEPT !.recv = Append(@, chunk),
                           !.fullContent = Delta(chunk),
                           !.resp = IF req[r].body.stream
                                    THEN Enqueue(@, SseData(Augmented(chunk, req[r].convId)))
                                    ELSE @,
                           !.handlerContent = IF req[r].body.stream THEN @
                                              ELSE @ \o Delta(chunk)]]
    /\ UNCHANGED <<routerVars, origCalls, storeVars, procVars, engVars, faults>>

\* The engine's stream yields a chunk: persistedStream adds its delta to
\* fullContent and yields it on; the handler frames it with the conversation
\* id when the completion streams, and adds its delta to its own text when not.
PersistedStreamChunk(r, chunk) ==
    /\ req[r].pc = "ps_loop"
    /\ chunkCount < MaxChunks
    /\ chunkCount' = chunkCount + 1
    /\ req' = [req EXCEPT ![r] =
                 [@ EXCEPT !.recv = Append(@, chunk),
                           !.fullContent = @ \o Delta(chunk),
                           !.resp = IF req[r].body.stream
                                    THEN Enqueue(@, SseData(Augmented(chunk, req[r].convId)))
                                    ELSE @,
                           !.handlerContent = IF req[r].body.stream THEN @
                                              ELSE @ \o Delta(chunk)]]
    /\ UNCHANGED <<routerVars, origCalls, storeVars, procVars, engVars, faults>>

\* A plausible slip: what has been accumulated is saved when the stream throws.
PersistedStreamThrow_SavesPartial(r) ==
    /\ req[r].pc = "ps_loop"
    /\ faults < MaxFaults
    /\ faults' = faults + 1
    /\ req' = [req EXCEPT ![r] = LoopCaught(@, "stream")]
    /\ \E id \in MsgIds \ usedMsgIds :
         /\ messages' = messages \cup
                {[id |-> id, conversationId |-> req[r].convId, role |-> "assistant",
                  content |-> req[r].fullContent, timestamp |-> now, seq |-> NextSeq]}
         /\ usedMsgIds' = usedMsgIds \cup {id}
    /\ UNCHANGED <<routerVars, origCalls, conversations, usedConvIds, now, procVars, engVars,
                   chunkCount>>

\* The engine's stream throws: persistedStream ends without saving.
PersistedStreamThrow(r) ==
    /\ req[r].pc = "ps_loop"
    /\ faults < MaxFaults
    /\ faults' = faults + 1
    /\ req' = [req EXCEPT ![r] = LoopCaught(@, "stream")]
    /\ UNCHANGED <<routerVars, origCalls, storeVars, procVars, engVars, chunkCount>>

\* A plausible slip: the handler reports the end when the engine's stream
\* ends, while the assistant message is still to be saved.
PersistedStreamEnd_DoneFirst(r) ==
    /\ req[r].pc = "ps_loop"
    /\ req' = [req EXCEPT ![r] =
                 Respond([@ EXCEPT !.ended = TRUE],
                         IF @.body.stream
                         THEN Close(Enqueue(@.resp, SseDone))
                         ELSE JsonResponse(200,
                                PersistentCompletion(
                                    IF currentModelId = Null THEN "webllm" ELSE currentModelId,
                                    @.convId, @.handlerContent)))]
    /\ OnlyReq

\* The engine's stream ends: persistedStream saves the assistant message,
\* whose content is fullContent and whose timestamp is Date.now().
PersistedStreamEnd(r) ==
    /\ req[r].pc = "ps_loop"
    /\ IF ~HandleOpen(req[r].db)
       THEN /\ req' = [req EXCEPT ![r] =
                         LoopCaught([@ EXCEPT !.ended = TRUE,
                                              !.asstCalls = Append(@, req[r].fullContent)],
                                    "saveAssistant")]
            /\ UNCHANGED storeVars
       ELSE \E id \in MsgIds \ usedMsgIds :
              LET record == [id |-> id, conversationId |-> req[r].convId,
                             role |-> "assistant", content |-> req[r].fullContent,
                             timestamp |-> now, seq |-> NextSeq]
              IN /\ messages' = messages \cup {record}
                 /\ conversations' = SaveMessageConvs(record)
                 /\ usedMsgIds' = usedMsgIds \cup {id}
                 /\ req' = [req EXCEPT ![r] = [@ EXCEPT !.pc = "ps_saving", !.ended = TRUE,
                                                        !.asstIds = @ \cup {id},
                                                        !.asstCalls = Append(@, req[r].fullContent),
                                                        !.log = Append(@, "saveAssistant")]]
                 /\ UNCHANGED <<usedConvIds, now>>
    /\ UNCHANGED <<routerVars, origCalls, procVars, engVars, envVars>>

\* The assistant message is saved: persistedStream is done, and the handler
\* closes the body after the [DONE] frame, or returns the whole completion.
PersistedStreamSaved(r) ==
    /\ req[r].pc = "ps_saving"
    /\ req' = [req EXCEPT ![r] =
                 Respond(@, IF @.body.stream
                            THEN Close(Enqueue(@.resp, SseDone))
                            ELSE JsonResponse(200,
                                   PersistentCompletion(
                                       IF currentModelId = Null THEN "webllm" ELSE currentModelId,
                                       @.convId, @.handlerContent)))]
    /\ OnlyReq

\* handleStreamingCompletion: the engine's call resolves to a stream.
StreamingCreate(r) ==
    /\ req[r].pc = "st_create"
    /\ req' = [req EXCEPT ![r].pc = "st_loop"]
    /\ OnlyReq

\* A plausible slip: a chunk without choices is not forwarded.
StreamingChunk_SkipsUsage(r, chunk) ==
    /\ req[r].pc = "st_loop"
    /\ chunkCount < MaxChunks
    /\ chunkCount' = chunkCount + 1
    /\ req' = [req EXCEPT ![r] = [@ EXCEPT !.recv = Append(@, chunk),
                                           !.resp = IF chunk.choices = <<>> THEN @
                                                    ELSE Enqueue(@, SseData(chunk))]]
    /\ UNCHANGED <<routerVars, origCalls, storeVars, procVars, engVars, faults>>

\* handleStreamingCompletion: a chunk is framed and enqueued.
StreamingChunk(r, chunk) ==
    /\ req[r].pc = "st_loop"
    /\ chunkCount < MaxChunks
    /\ chunkCount' = chunkCount + 1
    /\ req' = [req EXCEPT ![r] = [@ EXCEPT !.recv = Append(@, chunk),
                                           !.resp = Enqueue(@, SseData(chunk))]]
    /\ UNCHANGED <<routerVars, origCalls, storeVars, procVars, engVars, faults>>

\* handleStreamingCompletion: the stream ends; [DONE] is enqueued and the body closed.
StreamingEnd(r) ==
    /\ req[r].pc = "st_loop"
    /\ req' = [req EXCEPT ![r] =
                 Respond([@ EXCEPT !.ended = TRUE], Close(Enqueue(@.resp, SseDone)))]
    /\ OnlyReq

\* handleStreamingCompletion: the engine's call rejects or its stream throws.
StreamingThrow(r) ==
    /\ req[r].pc \in {"st_create", "st_loop"}
    /\ faults < MaxFaults
    /\ faults' = faults + 1
    /\ req' = [req EXCEPT ![r] =
                 StreamCaught(@, IF @.pc = "st_create" THEN "engineCreate" ELSE "stream")]
    /\ UNCHANGED <<routerVars, origCalls, storeVars, procVars, engVars, chunkCount>>

\* handleNonStreamingCompletion: the engine's result is returned as JSON.
NonStreamingResult(r, result) ==
    /\ req[r].pc = "ns_create"
    /\ req' = [req EXCEPT ![r] =
                 [Respond(@, JsonResponse(200, result)) EXCEPT !.result = result]]
    /\ OnlyReq

\* handleNonStreamingCompletion: the engine's call rejects.
NonStreamingThrow(r) ==
    /\ req[r].pc = "ns_create"
    /\ faults < MaxFaults
    /\ faults' = faults + 1
    /\ req' = [req EXCEPT ![r] = Caught(@, "engineCreate")]
    /\ UNCHANGED <<routerVars, origCalls, storeVars, procVars, engVars, chunkCount>>


-----------------------------------------------------------------------------
\* handleConversationDetail (fetchRouter.ts): GET, PATCH or PUT, and DELETE
\* of /v1/conversations/:id.

\* request.method?.toUpperCase() ?? "GET"
ToUpperCase(method) ==
    IF method = "patch" THEN "PATCH" ELSE IF method = "delete" THEN "DELETE" ELSE method

\* { error: { message } }
ErrorMessage(message) == [error |-> [message |-> message]]

MethodNotAllowed == JsonResponse(405, ErrorMessage(<<"Method not allowed">>))
ConversationNotFound == JsonResponse(404, ErrorMessage(<<"Conversation not found">>))

\* `Conversation ${id} not found`
UpdateNotFound(id) == <<"Conversation ", id, " not found">>

\* What ensureOpen throws, and what a transaction on a closed connection throws.
DatabaseNotOpen == <<"Database not open. Call open() first.">>
ConnectionClosed == <<"InvalidStateError">>

\* new Response(JSON.stringify(value), {status}): JSON.stringify(undefined)
\* is undefined, and a Response built from undefined has no body.
Stringified(status, value) ==
    IF value = NoConv
    THEN [status |-> status, kind |-> "json", body |-> <<>>, closed |-> TRUE]
    ELSE JsonResponse(status, value)

\* { deleted: true, id }
Deleted(id) == [deleted |-> TRUE, id |-> id]

\* The requests that handleConversationDetail has taken up.
IsDetail(q) == q.route = "conversation-detail"

\* The handler's promise rejects: nothing catches the throw, and the
\* promise the wrapper returned, the fetch call's, rejects with it.
Rejected(q, call) ==
    [q EXCEPT !.pc = "done", !.resp = [NoResp EXCEPT !.kind = "rejected", !.closed = TRUE],
              !.thrown = call]

\* The requests the conversation handlers have taken up.
IsCrud(q) == q.route \in {"conversations", "conversation-detail", "conversation-messages"}

\* getDB() when _db is null: _db = new ConversationDB(), and open() is awaited.
GetDBOpen(r) ==
    /\ req[r].pc = "handler"
    /\ IsCrud(req[r])
    /\ dbs.ref = 0
    /\ Len(dbs.inst) < MaxDbs
    /\ dbs' = [dbs EXCEPT !.ref = Len(dbs.inst) + 1, !.inst = Append(@, "opening")]
    /\ req' = [req EXCEPT ![r] = [@ EXCEPT !.pc = "db_opening", !.db = Len(dbs.inst) + 1,
                                           !.log = Append(@, "open")]]
    /\ UNCHANGED <<routerVars, origCalls, storeVars, procVars, clientEngine, currentModelId,
                   dbOpen, window, envVars>>

\* open() rejects (request.onerror): this.db stays null, _db keeps the
\* instance, and the handler, which has no catch around getDB(), rejects.
GetDBFailed(r) ==
    /\ req[r].pc = "db_opening"
    /\ faults < MaxFaults
    /\ faults' = faults + 1
    /\ dbs' = [dbs EXCEPT !.inst[req[r].db] = "failed"]
    /\ req' = [req EXCEPT ![r] = Rejected(@, "open")]
    /\ UNCHANGED <<routerVars, origCalls, storeVars, procVars, clientEngine, currentModelId,
                   dbOpen, window, chunkCount>>

\* `const db = await getDB()` has resolved: a caller that found _db set gets
\* it at once, whatever the state of its connection; the caller that
\* constructed the instance resumes when open() has resolved
\* (request.onsuccess sets this.db) and gets what _db is by then, which
\* destroyEngine may have set to null.
AwaitedDB(q) == q.pc = "db_opening" \/ (q.pc = "handler" /\ dbs.ref # 0)

\* The instances when the handler of q resumes.
Resumed(q) == IF q.pc = "db_opening" THEN [dbs EXCEPT !.inst[q.db] = "open"] ELSE dbs

\* ensureOpen on the handle the handler of q resumes with
GotOpen(q) == Resumed(q).ref # 0 /\ Resumed(q).inst[Resumed(q).ref] = "open"

\* The frame of the step in which the handler of request r resumes.
ResumeFrame(r) ==
    /\ dbs' = Resumed(req[r])
    /\ dbOpen' = GotOpen(req[r])
    /\ UNCHANGED <<routerVars, origCalls, storeVars, procVars, clientEngine, currentModelId,
                   window, envVars>>

\* handleConversationDetail after `await getDB()`: the method is read and
\* the handler runs to its next await.
\*  - GET: getConversation(id) reads the record, and the answer is 404 or
\*    the record; a throw of ensureOpen is not caught;
\*  - PATCH, PUT: request.json() is awaited;
\*  - DELETE: deleteConversation(id) awaits getMessages(id); a throw of
\*    ensureOpen is caught and answered 500;
\*  - otherwise 405.
DetailGetDB(r) ==
    /\ AwaitedDB(req[r])
    /\ IsDetail(req[r])
    /\ LET method == ToUpperCase(req[r].init.method)
           id == req[r].id
           h == Resumed(req[r]).ref
           q == [req[r] EXCEPT !.db = h]
       IN req' = [req EXCEPT ![r] =
            IF method = "GET"
            THEN IF ~GotOpen(req[r]) THEN Rejected(q, "getConversation")
                 ELSE [Respond(q, IF GetConversation(id) = NoConv THEN ConversationNotFound
                                  ELSE JsonResponse(200, GetConversation(id)))
                         EXCEPT !.existing = GetConversation(id),
                                !.log = Append(@, "getConversation")]
            ELSE IF method \in {"PATCH", "PUT"}
            THEN [q EXCEPT !.pc = "cd_json"]
            ELSE IF method = "DELETE"
            THEN IF ~GotOpen(req[r])
                 THEN [Respond(q, JsonResponse(500, ErrorMessage(DatabaseNotOpen)))
                         EXCEPT !.thrown = "deleteConversation"]
                 ELSE [q EXCEPT !.pc = "cd_del_read", !.listed = GetMessages(id),
                                !.log = Append(@, "getMessages")]
            ELSE Respond(q, MethodNotAllowed)]
    /\ ResumeFrame(r)

\* { title: body.title, modelId: body.model_id, updatedAt: Date.now() }:
\* the object has the three keys whatever the body carries.
PatchFields(body) ==
    [keys |-> {"title", "modelId", "updatedAt"},
     title |-> body.title, modelId |-> body.model_id, updatedAt |-> now]

\* PATCH after request.json() (a body that does not parse counts as {}):
\* updateConversation(id, fields) is called and awaits getConversation(id);
\* a throw of ensureOpen is caught and answered 404.
DetailJson(r) ==
    /\ req[r].pc = "cd_json"
    /\ LET body == req[r].init.body
           q == [req[r] EXCEPT !.body = body]
       IN req' = [req EXCEPT ![r] =
            IF ~HandleOpen(req[r].db)
            THEN [Respond(q, JsonResponse(404, ErrorMessage(DatabaseNotOpen)))
                    EXCEPT !.thrown = "updateConversation"]
            ELSE [q EXCEPT !.pc = "cd_upd_read", !.fields = PatchFields(body),
                           !.existing = GetConversation(q.id),
                           !.log = Append(@, "updateConversation")]]
    /\ OnlyReq

\* A plausible slip: a record that is absent is created from the fields.
DetailUpdateWrite_Upsert(r) ==
    /\ req[r].pc = "cd_upd_read"
    /\ IF ~HandleOpen(req[r].db)
       THEN /\ req' = [req EXCEPT ![r] =
                         [Respond(@, JsonResponse(404, ErrorMessage(ConnectionClosed)))
                            EXCEPT !.thrown = "updateConversation"]]
            /\ UNCHANGED conversations
       ELSE /\ conversations' =
                 PutConv(conversations,
                         MergeFields(IF req[r].existing = NoConv
                                     THEN [NoConv EXCEPT !.id = req[r].id]
                                     ELSE req[r].existing, req[r].fields))
            /\ req' = [req EXCEPT ![r] = [@ EXCEPT !.pc = "cd_upd_put"]]
    /\ UNCHANGED <<routerVars, origCalls, messages, usedConvIds, usedMsgIds, now, procVars,
                   engVars, envVars>>

\* updateConversation after its await: it throws if the record was absent,
\* which the handler answers 404, and otherwise puts { ...existing, ...fields }.
DetailUpdateWrite(r) ==
    /\ req[r].pc = "cd_upd_read"
    /\ IF req[r].existing = NoConv
       THEN /\ req' = [req EXCEPT ![r] =
                         [Respond(@, JsonResponse(404, ErrorMessage(UpdateNotFound(req[r].id))))
                            EXCEPT !.thrown = "updateConversation"]]
            /\ UNCHANGED conversations
       ELSE IF ~HandleOpen(req[r].db)
       THEN /\ req' = [req EXCEPT ![r] =
                         [Respond(@, JsonResponse(404, ErrorMessage(ConnectionClosed)))
                            EXCEPT !.thrown = "updateConversation"]]
            /\ UNCHANGED conversations
       ELSE /\ conversations' = PutConv(conversations,
                                        MergeFields(req[r].existing, req[r].fields))
            /\ req' = [req EXCEPT ![r] = [@ EXCEPT !.pc = "cd_upd_put"]]
    /\ UNCHANGED <<routerVars, origCalls, messages, usedConvIds, usedMsgIds, now, procVars,
                   engVars, envVars>>

\* PATCH after updateConversation has resolved: getConversation(id) reads the
\* record again and the answer is 200 with JSON.stringify of what it found.
DetailUpdated(r) ==
    /\ req[r].pc = "cd_upd_put"
    /\ req' = [req EXCEPT ![r] =
                 IF ~HandleOpen(req[r].db)
                 THEN [Respond(@, JsonResponse(404, ErrorMessage(DatabaseNotOpen)))
                         EXCEPT !.thrown = "getConversation"]
                 ELSE [Respond(@, Stringified(200, GetConversation(req[r].id)))
                         EXCEPT !.log = Append(@, "getConversation")]]
    /\ OnlyReq

\* A plausible slip: deleting a conversation that is not there is an error.
DetailDeleteWrite_AbsentFails(r) ==
    /\ req[r].pc = "cd_del_read"
    /\ IF ~HandleOpen(req[r].db) \/ req[r].id \notin DOMAIN conversations
       THEN /\ req' = [req EXCEPT ![r] =
                         [Respond(@, JsonResponse(500, ErrorMessage(UpdateNotFound(req[r].id))))
                            EXCEPT !.thrown = "deleteConversation"]]
            /\ UNCHANGED <<conversations, messages>>
       ELSE /\ conversations' = DeleteConv(conversations, req[r].id)
            /\ messages' = {m \in messages :
                              \A i \in DOMAIN req[r].listed : req[r].listed[i].id # m.id}
            /\ req' = [req EXCEPT ![r] = [@ EXCEPT !.pc = "cd_deleted",
                                                   !.existing = GetConversation(req[r].id),
                                                   !.log = Append(@, "deleteConversation")]]
    /\ UNCHANGED <<routerVars, origCalls, usedConvIds, usedMsgIds, now, procVars, engVars,
                   envVars>>

\* deleteConversation after its await: one transaction deletes the
\* conversation and the messages that were listed; `existing` keeps, as
\* history, the record the transaction found.
DetailDeleteWrite(r) ==
    /\ req[r].pc = "cd_del_read"
    /\ IF ~HandleOpen(req[r].db)
       THEN /\ req' = [req EXCEPT ![r] =
                         [Respond(@, JsonResponse(500, ErrorMessage(ConnectionClosed)))
                            EXCEPT !.thrown = "deleteConversation"]]
            /\ UNCHANGED <<conversations, messages>>
       ELSE /\ conversations' = DeleteConv(conversations, req[r].id)
            /\ messages' = {m \in messages :
                              \A i \in DOMAIN req[r].listed : req[r].listed[i].id # m.id}
            /\ req' = [req EXCEPT ![r] = [@ EXCEPT !.pc = "cd_deleted",
                                                   !.existing = GetConversation(req[r].id),
                                                   !.log = Append(@, "deleteConversation")]]
    /\ UNCHANGED <<routerVars, origCalls, usedConvIds, usedMsgIds, now, procVars, engVars,
                   envVars>>

\* DELETE after deleteConversation has resolved: 200 { deleted: true, id }
DetailDeleted(r) ==
    /\ req[r].pc = "cd_deleted"
    /\ req' = [req EXCEPT ![r] = Respond(@, JsonResponse(200, Deleted(req[r].id)))]
    /\ OnlyReq

\* The order of the conversation ids as keys (the ids are random, and
\* which id a conversation gets is not determined).
IdRank(id) == IF id = "c1" THEN 1 ELSE 2

\* The order in which the cursor over index "updatedAt" with direction
\* "prev" yields the records: by updatedAt descending, and among equal keys
\* by the primary key descending.
ConvBefore(a, b) ==
    \/ a.updatedAt > b.updatedAt
    \/ a.updatedAt = b.updatedAt /\ IdRank(a.id) > IdRank(b.id)

RECURSIVE SortConvs(_)
SortConvs(S) ==
    IF S = {} THEN <<>>
    ELSE LET c == CHOOSE x \in S : \A y \in S \ {x} : ConvBefore(x, y)
         IN <<c>> \o SortConvs(S \ {c})

\* A plausible slip: the cursor runs in direction "next".
ListConversations_Ascending ==
    LET list == SortConvs({conversations[id] : id \in DOMAIN conversations})
    IN [i \in DOMAIN list |-> list[Len(list) + 1 - i]]

\* listConversations: every record of the index, in the cursor's order
ListConversations == SortConvs({conversations[id] : id \in DOMAIN conversations})

\* { object: "list", data }
ListOf(data) == [object |-> "list", data |-> data]

\* handleConversations after `await getDB()`:
\*  - GET: listConversations() reads the records, and the answer is 200 with the list;
\*  - POST: request.json() is awaited;
\*  - otherwise 405.
\* Nothing catches a throw of the store.
Conversations(r) ==
    /\ AwaitedDB(req[r])
    /\ req[r].route = "conversations"
    /\ LET method == ToUpperCase(req[r].init.method)
           h == Resumed(req[r]).ref
           q == [req[r] EXCEPT !.db = h]
       IN req' = [req EXCEPT ![r] =
            IF method = "GET"
            THEN IF ~GotOpen(req[r]) THEN Rejected(q, "listConversations")
                 ELSE [Respond(q, JsonResponse(200, ListOf(ListConversations)))
                         EXCEPT !.log = Append(@, "listConversations")]
            ELSE IF method = "POST"
            THEN [q EXCEPT !.pc = "cv_json"]
            ELSE Respond(q, MethodNotAllowed)]
    /\ ResumeFrame(r)

\* body.title ?? "New Conversation"
NewTitle(body) == IF body.title # NoTitle THEN body.title ELSE <<"New Conversation">>

\* body.model_id ?? getCurrentModelId() ?? "unknown"
NewModelId(body) ==
    Coalesce(body.model_id, IF currentModelId = Null THEN "unknown" ELSE currentModelId)

\* POST after request.json() (a body that does not parse counts as {}):
\* createConversation(title, modelId) adds the record, and the answer is 201
\* with it; a throw of ensureOpen is not caught.
ConversationsJson(r) ==
    /\ req[r].pc = "cv_json"
    /\ LET body == req[r].init.body
           q == [req[r] EXCEPT !.body = body]
       IN IF ~HandleOpen(q.db)
          THEN /\ req' = [req EXCEPT ![r] = Rejected(q, "createConversation")]
               /\ UNCHANGED <<conversations, usedConvIds>>
          ELSE \E id \in ConvIds \ usedConvIds :
                 LET record == [id |-> id, title |-> NewTitle(body), modelId |-> NewModelId(body),
                                createdAt |-> now, updatedAt |-> now]
                 IN /\ conversations' = PutConv(conversations, record)
                    /\ usedConvIds' = usedConvIds \cup {id}
                    /\ req' = [req EXCEPT ![r] =
                                 [Respond(q, JsonResponse(201, record))
                                    EXCEPT !.convId = id, !.created = TRUE,
                                           !.log = Append(@, "createConversation")]]
    /\ UNCHANGED <<routerVars, origCalls, messages, usedMsgIds, now, procVars, engVars, envVars>>

\* { object: "list", data: messages, conversation_id }
MessageList(data, conversationId) ==
    [object |-> "list", data |-> data, conversation_id |-> conversationId]

\* handleConversationMessages after `await getDB()`: for GET
\* getConversation(id) reads the record, and the answer is 404 if there is
\* none; otherwise getMessages(id) is awaited. Other methods are answered
\* 405. Nothing catches a throw of the store.
ConversationMessages(r) ==
    /\ AwaitedDB(req[r])
    /\ req[r].route = "conversation-messages"
    /\ LET method == ToUpperCase(req[r].init.method)
           id == req[r].id
           h == Resumed(req[r]).ref
           q == [req[r] EXCEPT !.db = h]
       IN req' = [req EXCEPT ![r] =
            IF method # "GET" THEN Respond(q, MethodNotAllowed)
            ELSE IF ~GotOpen(req[r]) THEN Rejected(q, "getConversation")
            ELSE IF GetConversation(id) = NoConv
            THEN [Respond(q, ConversationNotFound) EXCEPT !.log = Append(@, "getConversation")]
            ELSE [q EXCEPT !.pc = "cm_conv", !.existing = GetConversation(id),
                           !.log = Append(@, "getConversation")]]
    /\ ResumeFrame(r)

\* GET after getConversation has resolved to a record: getMessages(id)
\* reads the messages, and the answer is 200 with the list.
ConversationMessagesList(r) ==
    /\ req[r].pc = "cm_conv"
    /\ req' = [req EXCEPT ![r] =
                 IF ~HandleOpen(req[r].db) THEN Rejected(@, "getMessages")
                 ELSE [Respond(@, JsonResponse(200, MessageList(GetMessages(req[r].id),
                                                                req[r].id)))
                         EXCEPT !.history = GetMessages(req[r].id),
                                !.log = Append(@, "getMessages")]]
    /\ OnlyReq

-----------------------------------------------------------------------------
Init ==
    /\ globalFetch = NativeFetch
    /\ originalFetch = NoFn
    /\ routerEngine = Null
    /\ preInstallFetch = NoFn
    /\ wrapperCount = 0
    /\ lastOp = "none"
    /\ reinstalled = FALSE
    /\ origCalls = <<>>
    /\ req = [r \in Reqs |-> IdleReq]
    /\ conversations = <<>>
    /\ messages = {}
    /\ usedConvIds = {}
    /\ usedMsgIds = {}
    /\ now = 1
    /\ proc = [p \in Procs |-> IdleProc]
    /\ opCount = 0
    /\ clientEngine = Null
    /\ currentModelId = Null
    /\ dbOpen = FALSE
    /\ dbs = NoDbs
    /\ faults = 0
    /\ chunkCount = 0
    /\ window = NoWindow

RouterNext ==
    \/ \E e \in Engines \cup {Null} : InstallFetchRouter(e)
    \/ UninstallFetchRouter
    \/ \E f \in EnvFetches : SetGlobalFetch(f)
    \/ \E r \in Reqs, input \in Inputs, init \in Inits : WrapperPassthrough(r, input, init)
    \/ \E r \in Reqs, input \in Inputs, init \in Inits : WrapperDispatch(r, input, init)

SpecRouter == Init /\ [][RouterNext]_vars

StoreNext ==
    \/ \E p \in Procs : DbCreateConversation(p, <<"t">>, "m1")
    \/ \E p \in Procs, id \in ConvIds : DbSaveMessage(p, id, "user", <<"x">>)
    \/ \E p \in Procs, id \in ConvIds, fields \in UpdateFields : DbUpdateRead(p, id, fields)
    \/ \E p \in Procs : DbUpdateWrite(p)
    \/ \E p \in Procs, id \in ConvIds : DbDeleteRead(p, id)
    \/ \E p \in Procs : DbDeleteWrite(p)
    \/ Tick

SpecStore == Init /\ [][StoreNext]_vars

\* The store's operations by direct callers of one instance, which is
\* closed and opened again.
CloseNext ==
    \/ \E p \in Procs : DbCreateConversation(p, <<"t">>, "m1")
    \/ \E p \in Procs, id \in ConvIds : DbSaveMessage(p, id, "user", <<"x">>)
    \/ \E p \in Procs, id \in ConvIds, fields \in UpdateFields : DbUpdateRead(p, id, fields)
    \/ \E p \in Procs : DbUpdateWrite(p)
    \/ \E p \in Procs, id \in ConvIds : DbDeleteRead(p, id)
    \/ \E p \in Procs : DbDeleteWrite(p)
    \/ \E p \in Procs, op \in Queries : DbQuery(p, op)
    \/ \E p \in Procs : DbClearAll(p)
    \/ \E p \in Procs, op \in StoreOps : DbNotOpen(p, op)
    \/ DbClose
    \/ DbOpen
    \/ DbOpened

SpecClose == Init /\ [][CloseNext]_vars

\* The timestamps direct callers stamp messages with: any number, such as
\* the 1000 of the tests, which lies before every conversation's createdAt,
\* and a negative one, which lies below the range getMessages reads.
Timestamps == -1..(MaxClock - 1)

\* Direct callers of the store that stamp their messages themselves, within
\* one millisecond.
StampedNext ==
    \/ \E p \in Procs : DbCreateConversation(p, <<"t">>, "m1")
    \/ \E p \in Procs, id \in ConvIds, timestamp \in Timestamps :
         DbSaveMessageAt(p, id, "user", <<"x">>, timestamp)
    \/ \E p \in Procs, id \in ConvIds, fields \in UpdateFields : DbUpdateRead(p, id, fields)
    \/ \E p \in Procs : DbUpdateWrite(p)

SpecStamped == Init /\ [][StampedNext]_vars

\* The state after createEngine("m1") has resolved and its engine has been
\* handed to installFetchRouter.
InitCompletion ==
    /\ globalFetch = Wrapper(1)
    /\ originalFetch = NativeFetch
    /\ routerEngine = "E1"
    /\ preInstallFetch = NativeFetch
    /\ wrapperCount = 1
    /\ lastOp = "install"
    /\ reinstalled = FALSE
    /\ origCalls = <<>>
    /\ req = [r \in ChatReqs |-> IdleReq]
    /\ conversations = <<>>
    /\ messages = {}
    /\ usedConvIds = {}
    /\ usedMsgIds = {}
    /\ now = 1
    /\ proc = [p \in Procs |-> IdleProc]
    /\ opCount = 0
    /\ clientEngine = "E1"
    /\ currentModelId = "m1"
    /\ dbOpen = TRUE
    /\ dbs = OpenDbs
    /\ faults = 0
    /\ chunkCount = 0
    /\ window = NoWindow

CompletionNext ==
    \/ \E r \in ChatReqs, input \in ChatInputs, init \in ChatInits \cup {PostInit(NoBody)} :
         WrapperDispatch(r, input, init)
    \/ \E r \in ChatReqs : HandleChatCompletions(r)
    \/ \E r \in ChatReqs : SendMessageGetDB(r)
    \/ \E r \in ChatReqs : SendMessageCreated(r)
    \/ \E r \in ChatReqs : SendMessageUserSaved(r)
    \/ \E r \in ChatReqs : SendMessageHistory(r)
    \/ \E r \in ChatReqs : SendMessageEngine(r)
    \/ \E r \in ChatReqs : SendMessageEngineThrow(r)
    \/ \E r \in ChatReqs, chunk \in Chunks : PersistedStreamChunk(r, chunk)
    \/ \E r \in ChatReqs : PersistedStreamThrow(r)
    \/ \E r \in ChatReqs : PersistedStreamEnd(r)
    \/ \E r \in ChatReqs : PersistedStreamSaved(r)
    \/ \E r \in ChatReqs : StreamingCreate(r)
    \/ \E r \in ChatReqs, chunk \in Chunks : StreamingChunk(r, chunk)
    \/ \E r \in ChatReqs : StreamingEnd(r)
    \/ \E r \in ChatReqs : StreamingThrow(r)
    \/ \E r \in ChatReqs, result \in EngineResults : NonStreamingResult(r, result)
    \/ \E r \in ChatReqs : NonStreamingThrow(r)
    \/ DestroyEngine
    \/ Tick

SpecCompletion == InitCompletion /\ [][CompletionNext]_vars

\* A step of the completion r that is under way.
RequestStep(r) ==
    \/ HandleChatCompletions(r)
    \/ SendMessageGetDB(r)
    \/ SendMessageCreated(r)
    \/ SendMessageUserSaved(r)
    \/ SendMessageHistory(r)
    \/ SendMessageEngine(r)
    \/ PersistedStreamEnd(r)
    \/ PersistedStreamSaved(r)
    \/ StreamingCreate(r)
    \/ StreamingEnd(r)
    \/ \E result \in EngineResults : NonStreamingResult(r, result)

\* Promises settle: an awaited call of the store or of the engine resolves
\* or rejects, and an engine stream that yields no more chunks ends.
SpecCompletionFair == SpecCompletion /\ \A r \in ChatReqs : WF_vars(RequestStep(r))

\* The URLs fetched when the router's matching is explored: every path of up
\* to MaxPathLen segments over the words the routes are made of, an id and
\* the empty segment (as in "/v1/conversations/"), relative and absolute.
Segments == {"v1", "chat", "completions", "models", "conversations", "messages", "c1", ""}

RECURSIVE Paths(_)
Paths(n) ==
    IF n = 0 THEN {<<>>}
    ELSE LET shorter == Paths(n - 1)
         IN shorter \cup {Append(p, seg) : p \in {q \in shorter : Len(q) = n - 1},
                                          seg \in Segments}

Hosts == {"", "api.openai.com"}

PathInputs ==
    {[kind |-> "string", url |-> Url(valid, host, path)] :
        valid \in BOOLEAN, host \in Hosts, path \in Paths(MaxPathLen)}

InterceptNext ==
    \/ \E r \in ChatReqs :
         req[r].pc = "idle" /\ \E input \in PathInputs : WrapperPassthrough(r, input, NoInit)
    \/ \E r \in ChatReqs :
         req[r].pc = "idle" /\ \E input \in PathInputs : WrapperDispatch(r, input, NoInit)

SpecIntercept == InitCompletion /\ [][InterceptNext]_vars

\* Completions while the router is handed other engines, or none:
\* installFetchRouter on an installed router replaces its engine only.
GateNext ==
    \/ \E e \in Engines \cup {Null} : InstallFetchRouter(e)
    \/ \E r \in ChatReqs, input \in ChatInputs, init \in ChatInits \cup {PostInit(NoBody)} :
         WrapperDispatch(r, input, init)
    \/ \E r \in ChatReqs : RequestStep(r)
    \/ \E r \in ChatReqs, chunk \in Chunks : PersistedStreamChunk(r, chunk)
    \/ \E r \in ChatReqs, chunk \in Chunks : StreamingChunk(r, chunk)

SpecGate == InitCompletion /\ [][GateNext]_vars

\* Plain completions while the router is handed another engine or none, or
\* is uninstalled, during the request's `await request.json()`.
PlainInits == {PostInit(b) : b \in {c \in ChatBodies : ~IsPersistent(c)}}

SwapNext ==
    \/ \E e \in Engines \cup {Null} : InstallFetchRouter(e)
    \/ UninstallFetchRouter
    \/ \E r \in ChatReqs, input \in ChatInputs, init \in PlainInits :
         WrapperDispatch(r, input, init)
    \/ \E r \in ChatReqs : HandleChatCompletions(r)
    \/ \E r \in ChatReqs : StreamingCreate(r)
    \/ \E r \in ChatReqs, chunk \in Chunks : StreamingChunk(r, chunk)
    \/ \E r \in ChatReqs : StreamingEnd(r)
    \/ \E r \in ChatReqs, result \in EngineResults : NonStreamingResult(r, result)

SpecSwap == InitCompletion /\ [][SwapNext]_vars

\* Completions, plain and persistent, while engines are created, handed to
\* the router and destroyed; the engines' streams end without a chunk.
EnginesNext ==
    \/ \E e \in Engines, modelId \in ModelIds : CreateEngine(e, modelId)
    \/ \E h \in 1..MaxDbs : OpenSucceeded(h)
    \/ \E e \in Engines \cup {Null} : InstallFetchRouter(e)
    \/ DestroyEngine
    \/ \E r \in ChatReqs, input \in ChatInputs, init \in ChatInits :
         WrapperDispatch(r, input, init)
    \/ \E r \in ChatReqs : RequestStep(r)

SpecEngines == InitCompletion /\ [][EnginesNext]_vars

\* User texts around the title's length: of TitleLength - 1, TitleLength,
\* TitleLength + 1 and TitleLength + 3 characters, whose halves and tails differ.
LongText(n) ==
    [i \in 1..n |-> IF 2 * i <= TitleLength THEN "a" ELSE IF i <= TitleLength THEN "b" ELSE "c"]

TitleInits ==
    {PostInit(Body(stream, Null, TRUE, <<ChatMessage("user", LongText(n))>>)) :
        stream \in BOOLEAN,
        n \in {TitleLength - 1, TitleLength, TitleLength + 1, TitleLength + 3}}

\* Persistent completions that start conversations, while the model is
\* reloaded and the engine destroyed.
NewConversationNext ==
    \/ \E r \in ChatReqs, input \in ChatInputs, init \in ChatInits \cup TitleInits :
         WrapperDispatch(r, input, init)
    \/ \E r \in ChatReqs : RequestStep(r)
    \/ \E r \in ChatReqs, chunk \in Chunks : PersistedStreamChunk(r, chunk)
    \/ \E r \in ChatReqs, chunk \in Chunks : StreamingChunk(r, chunk)
    \/ \E modelId \in ModelIds : ReloadModel(modelId)
    \/ DestroyEngine

SpecNewConversation == InitCompletion /\ [][NewConversationNext]_vars

\* A conversation that has gone on for a while: n messages of alternating
\* user and assistant turns, each with its own text, saved one per
\* millisecond; the ids, being random, are not in the order of the saves.
Digits == <<"0", "1", "2", "3", "4", "5", "6", "7", "8", "9">>
TurnText(i) == <<Digits[(i \div 10) + 1], Digits[(i % 10) + 1]>>

StoredTurns(n) ==
    {[id |-> MaxMsgs + n + 1 - i, conversationId |-> "c1",
      role |-> IF i % 2 = 1 THEN "user" ELSE "assistant",
      content |-> TurnText(i), timestamp |-> i, seq |-> i] : i \in 1..n}

\* The lengths around the context budget: with the message the request
\* saves, and with or without a system prompt, the messages built for the
\* model are fewer than, as many as and more than the budget.
HistoryLengths ==
    {DEFAULT_MAX_CONTEXT_MESSAGES - 2, DEFAULT_MAX_CONTEXT_MESSAGES - 1,
     DEFAULT_MAX_CONTEXT_MESSAGES, DEFAULT_MAX_CONTEXT_MESSAGES + 1}

InitLongConversation ==
    /\ globalFetch = Wrapper(1)
    /\ originalFetch = NativeFetch
    /\ routerEngine = "E1"
    /\ preInstallFetch = NativeFetch
    /\ wrapperCount = 1
    /\ lastOp = "install"
    /\ reinstalled = FALSE
    /\ origCalls = <<>>
    /\ req = [r \in ChatReqs |-> IdleReq]
    /\ \E n \in HistoryLengths :
         /\ messages = StoredTurns(n)
         /\ conversations = PutConv(<<>>, [id |-> "c1", title |-> TurnText(1), modelId |-> "m1",
                                           createdAt |-> 1, updatedAt |-> n])
    /\ usedConvIds = {"c1"}
    /\ usedMsgIds = {}
    /\ now = DEFAULT_MAX_CONTEXT_MESSAGES + 2
    /\ proc = [p \in Procs |-> IdleProc]
    /\ opCount = 0
    /\ clientEngine = "E1"
    /\ currentModelId = "m1"
    /\ dbOpen = TRUE
    /\ dbs = OpenDbs
    /\ faults = 0
    /\ chunkCount = 0
    /\ window = NoWindow

\* Persistent completions that continue the conversation, with and without
\* a system prompt, next to the other completions.
ContinueInits ==
    {PostInit(Body(stream, "c1", TRUE, msgs)) :
        stream \in BOOLEAN, msgs \in {UserOnly, SystemAndUser}}

LongConversationNext ==
    \/ \E r \in ChatReqs, input \in ChatInputs, init \in ChatInits \cup ContinueInits :
         WrapperDispatch(r, input, init)
    \/ \E r \in ChatReqs : RequestStep(r)
    \/ \E r \in ChatReqs, chunk \in Chunks : PersistedStreamChunk(r, chunk)
    \/ \E r \in ChatReqs, chunk \in Chunks : StreamingChunk(r, chunk)

SpecLongConversation == InitLongConversation /\ [][LongConversationNext]_vars

\* Plain completions with and without generation parameters, whose engine
\* resolves, rejects, or is replaced while the body is parsed.
PlainNext ==
    \/ \E e \in Engines \cup {Null} : InstallFetchRouter(e)
    \/ \E r \in ChatReqs, input \in ChatInputs, init \in ChatInits \cup ParamInits :
         WrapperDispatch(r, input, init)
    \/ \E r \in ChatReqs : RequestStep(r)
    \/ \E r \in ChatReqs, chunk \in Chunks : PersistedStreamChunk(r, chunk)
    \/ \E r \in ChatReqs, chunk \in Chunks : StreamingChunk(r, chunk)
    \/ \E r \in ChatReqs : NonStreamingThrow(r)
    \/ \E r \in ChatReqs : StreamingThrow(r)

SpecPlain == InitCompletion /\ [][PlainNext]_vars

\* The lists applySlidingWindow is called with directly: every sequence of
\* up to MaxListLen messages of the three roles, system messages at any
\* position, each message with a text of its own.
Roles == {"system", "user", "assistant"}

MessageLists ==
    UNION {{[i \in 1..n |-> ChatMessage(roles[i], TurnText(i))] : roles \in [1..n -> Roles]} :
           n \in 0..MaxListLen}

InitWindow ==
    /\ globalFetch = NativeFetch
    /\ originalFetch = NoFn
    /\ routerEngine = Null
    /\ preInstallFetch = NoFn
    /\ wrapperCount = 0
    /\ lastOp = "none"
    /\ reinstalled = FALSE
    /\ origCalls = <<>>
    /\ req = [r \in Reqs |-> IdleReq]
    /\ conversations = <<>>
    /\ messages = {}
    /\ usedConvIds = {}
    /\ usedMsgIds = {}
    /\ now = 1
    /\ proc = [p \in Procs |-> IdleProc]
    /\ opCount = 0
    /\ clientEngine = Null
    /\ currentModelId = Null
    /\ dbOpen = FALSE
    /\ dbs = NoDbs
    /\ faults = 0
    /\ chunkCount = 0
    /\ \E msgs \in MessageLists, maxMessages \in 0..MaxWindow :
         window = [NoWindow EXCEPT !.messages = msgs, !.maxMessages = maxMessages]

WindowNext == ApplyWindow

SpecWindow == InitWindow /\ [][WindowNext]_vars

\* Two conversations going on at once: each has been created, and
\* persistent completions continue them, each with a user text of its own;
\* their steps interleave in every order.
ConcurrentReqs == 1..MaxConcurrent

TextOf(conversationId) == IF conversationId = "c1" THEN <<"h">> ELSE <<"g">>

IsolationInits ==
    {PostInit(Body(stream, id, FALSE, <<ChatMessage("user", TextOf(id))>>)) :
        stream \in BOOLEAN, id \in ConvIds}

InitIsolation ==
    /\ globalFetch = Wrapper(1)
    /\ originalFetch = NativeFetch
    /\ routerEngine = "E1"
    /\ preInstallFetch = NativeFetch
    /\ wrapperCount = 1
    /\ lastOp = "install"
    /\ reinstalled = FALSE
    /\ origCalls = <<>>
    /\ req = [r \in ConcurrentReqs |-> IdleReq]
    /\ conversations = [id \in ConvIds |->
                          [id |-> id, title |-> <<"t">>, modelId |-> "m1",
                           createdAt |-> 1, updatedAt |-> 1]]
    /\ messages = {}
    /\ usedConvIds = ConvIds
    /\ usedMsgIds = {}
    /\ now = 1
    /\ proc = [p \in Procs |-> IdleProc]
    /\ opCount = 0
    /\ clientEngine = "E1"
    /\ currentModelId = "m1"
    /\ dbOpen = TRUE
    /\ dbs = OpenDbs
    /\ faults = 0
    /\ chunkCount = 0
    /\ window = NoWindow

IsolationNext ==
    \/ \E r \in ConcurrentReqs, input \in ChatInputs, init \in IsolationInits :
         WrapperDispatch(r, input, init)
    \/ \E r \in ConcurrentReqs : HandleChatCompletions(r)
    \/ \E r \in ConcurrentReqs : SendMessageGetDB(r)
    \/ \E r \in ConcurrentReqs : SendMessageUserSaved(r)
    \/ \E r \in ConcurrentReqs : SendMessageHistory(r)
    \/ \E r \in ConcurrentReqs : SendMessageEngine(r)
    \/ \E r \in ConcurrentReqs : PersistedStreamChunk(r, ContentChunk(<<"a">>))
    \/ \E r \in ConcurrentReqs : PersistedStreamEnd(r)
    \/ \E r \in ConcurrentReqs : PersistedStreamSaved(r)

SpecIsolation == InitIsolation /\ [][IsolationNext]_vars

\* Requests for one conversation and for an id the store does not hold,
\* made while the conversation has messages and another one exists beside
\* it: it is read, updated with a title, a model id, both or neither, and
\* deleted, by calls whose steps interleave, while a message is saved and
\* time passes.
DetailInputs ==
    {[kind |-> "string", url |-> Url(TRUE, "", <<"v1", "conversations", id>>)] :
        id \in {"c1", "c3"}}

PatchBody(title, modelId) == [NoBody EXCEPT !.json = TRUE, !.title = title, !.model_id = modelId]

PatchBodies ==
    {PatchBody(<<"n">>, Unset), PatchBody(NoTitle, "m2"), PatchBody(<<"n">>, "m2"),
     PatchBody(NoTitle, Unset)}

DetailInits ==
    {NoInit, MethodInit("DELETE", NoBody), MethodInit("POST", NoBody),
     MethodInit("PUT", PatchBody(<<"n">>, "m2")), MethodInit("patch", NoBody)}
    \cup {MethodInit("PATCH", body) : body \in PatchBodies}

InitDetail ==
    /\ globalFetch = Wrapper(1)
    /\ originalFetch = NativeFetch
    /\ routerEngine = "E1"
    /\ preInstallFetch = NativeFetch
    /\ wrapperCount = 1
    /\ lastOp = "install"
    /\ reinstalled = FALSE
    /\ origCalls = <<>>
    /\ req = [r \in ConcurrentReqs |-> IdleReq]
    /\ conversations = [id \in ConvIds |->
                          [id |-> id, title |-> <<"t">>, modelId |-> "m1",
                           createdAt |-> 1, updatedAt |-> 1]]
    /\ messages = {[id |-> 1, conversationId |-> "c1", role |-> "user", content |-> <<"h">>,
                    timestamp |-> 1, seq |-> 1],
                   [id |-> 2, conversationId |-> "c2", role |-> "user", content |-> <<"g">>,
                    timestamp |-> 1, seq |-> 2]}
    /\ usedConvIds = ConvIds
    /\ usedMsgIds = {1, 2}
    /\ now = 2
    /\ proc = [p \in Procs |-> IdleProc]
    /\ opCount = 0
    /\ clientEngine = "E1"
    /\ currentModelId = "m1"
    /\ dbOpen = TRUE
    /\ dbs = OpenDbs
    /\ faults = 0
    /\ chunkCount = 0
    /\ window = NoWindow

DetailNext ==
    \/ \E r \in ConcurrentReqs, input \in DetailInputs, init \in DetailInits :
         WrapperDispatch(r, input, init)
    \/ \E r \in ConcurrentReqs : DetailGetDB(r)
    \/ \E r \in ConcurrentReqs : DetailJson(r)
    \/ \E r \in ConcurrentReqs : DetailUpdateWrite(r)
    \/ \E r \in ConcurrentReqs : DetailUpdated(r)
    \/ \E r \in ConcurrentReqs : DetailDeleteWrite(r)
    \/ \E r \in ConcurrentReqs : DetailDeleted(r)
    \/ \E p \in Procs : DbSaveMessage(p, "c1", "user", <<"x">>)
    \/ Tick

SpecDetail == InitDetail /\ [][DetailNext]_vars

\* The conversation routes, called on a page that has installed the router
\* and not yet opened the database, which holds a conversation from an
\* earlier visit: conversations are listed, created, read, updated and
\* deleted and their messages listed by calls whose steps interleave,
\* while open() resolves or rejects, a message with a newer timestamp is
\* saved and the engine is destroyed.
CrudInputs ==
    {[kind |-> "string", url |-> Url(TRUE, "", path)] :
        path \in {<<"v1", "conversations">>, <<"v1", "conversations", "c1">>,
                  <<"v1", "conversations", "c3">>, <<"v1", "conversations", "c1", "messages">>,
                  <<"v1", "conversations", "c3", "messages">>}}

CrudInits ==
    {NoInit, MethodInit("POST", PatchBody(<<"n">>, Unset)), MethodInit("DELETE", NoBody),
     MethodInit("PATCH", PatchBody(<<"n">>, "m2"))}

InitCrud ==
    /\ globalFetch = Wrapper(1)
    /\ originalFetch = NativeFetch
    /\ routerEngine = "E1"
    /\ preInstallFetch = NativeFetch
    /\ wrapperCount = 1
    /\ lastOp = "install"
    /\ reinstalled = FALSE
    /\ origCalls = <<>>
    /\ req = [r \in ConcurrentReqs |-> IdleReq]
    /\ conversations = PutConv(<<>>, [id |-> "c1", title |-> <<"t">>, modelId |-> "m1",
                                      createdAt |-> 1, updatedAt |-> 1])
    /\ messages = {[id |-> 1, conversationId |-> "c1", role |-> "user", content |-> <<"h">>,
                    timestamp |-> 1, seq |-> 1]}
    /\ usedConvIds = {"c1"}
    /\ usedMsgIds = {1}
    /\ now = 2
    /\ proc = [p \in Procs |-> IdleProc]
    /\ opCount = 0
    /\ clientEngine = Null
    /\ currentModelId = Null
    /\ dbOpen = FALSE
    /\ dbs = NoDbs
    /\ faults = 0
    /\ chunkCount = 0
    /\ window = NoWindow

CrudNext ==
    \/ \E r \in ConcurrentReqs, input \in CrudInputs, init \in CrudInits :
         WrapperDispatch(r, input, init)
    \/ \E r \in ConcurrentReqs : GetDBOpen(r)
    \/ \E r \in ConcurrentReqs : GetDBFailed(r)
    \/ \E r \in ConcurrentReqs : Conversations(r)
    \/ \E r \in ConcurrentReqs : ConversationsJson(r)
    \/ \E r \in ConcurrentReqs : ConversationMessages(r)
    \/ \E r \in ConcurrentReqs : ConversationMessagesList(r)
    \/ \E r \in ConcurrentReqs : DetailGetDB(r)
    \/ \E r \in ConcurrentReqs : DetailJson(r)
    \/ \E r \in ConcurrentReqs : DetailUpdateWrite(r)
    \/ \E r \in ConcurrentReqs : DetailUpdated(r)
    \/ \E r \in ConcurrentReqs : DetailDeleteWrite(r)
    \/ \E r \in ConcurrentReqs : DetailDeleted(r)
    \/ opCount = 0 /\ DbSaveMessageAt(1, "c1", "user", <<"x">>, now + 1)
    \/ DestroyEngine

SpecCrud == InitCrud /\ [][CrudNext]_vars

\* The shared handle is counted open exactly when _db refers to an instance
\* whose connection is open.
DbsConsistent == dbOpen = HandleOpen(dbs.ref)

-----------------------------------------------------------------------------
\* Claims about the store's transactions.

\* C6: when deleteConversation(id) of a stored conversation returns, the
\* conversation is gone and no message of conversation id that was saved
\* before the delete returned is left in the store.
C6_DeleteAtomic ==
    [][\A p \in Procs :
         (/\ proc[p].pc = "del_read"
          /\ proc'[p].pc = "idle"
          /\ proc[p].id \in DOMAIN conversations)
         => /\ proc[p].id \notin DOMAIN conversations'
            /\ \A m \in messages' : m.conversationId # proc[p].id]_vars

\* C7: every reader sees, for each message of an existing conversation, a
\* parent whose updatedAt has been moved up to that message's timestamp
\* (callers stamp messages and updates with Date.now()).
C7_TouchAtomic ==
    \A id \in DOMAIN conversations :
        \A m \in messages :
            m.conversationId = id => conversations[id].updatedAt >= m.timestamp

-----------------------------------------------------------------------------
\* Claims about the router's lifecycle.

\* The calls r has made to the original fetch.
OrigCallsBy(r) == {i \in DOMAIN origCalls : origCalls[i].by = r}

\* C8: an install while already installed leaves globalThis.fetch the very
\* same wrapper (and the saved original fetch) and changes only the engine
\* reference; the saved original fetch is never a wrapper, and no call handed
\* to the original fetch goes to a wrapper.
C8_NoDoubleWrap ==
    /\ [](~IsWrapper(originalFetch))
    /\ [](\A i \in DOMAIN origCalls : ~IsWrapper(origCalls[i].fn))
    /\ [][\A e \in Engines \cup {Null} :
            (IsFetchRouterInstalled /\ InstallFetchRouter(e)) =>
                /\ globalFetch' = globalFetch
                /\ originalFetch' = originalFetch
                /\ wrapperCount' = wrapperCount
                /\ routerEngine' = e]_vars

\* C8 witness: the router is installed, its engine was swapped by a second
\* install, and a call has been passed on to the original fetch.
C8_Witness ==
    /\ IsFetchRouterInstalled
    /\ lastOp = "install"
    /\ reinstalled
    /\ routerEngine = "E2"
    /\ IsWrapper(globalFetch)
    /\ origCalls # <<>>

\* C9: uninstall puts back exactly the function that was globalThis.fetch
\* just before the install that built the wrapper, whatever re-installs came
\* in between, and the router then reports not installed; an uninstall while
\* not installed leaves globalThis.fetch unchanged.
C9_UninstallRestores ==
    [][UninstallFetchRouter =>
         IF IsFetchRouterInstalled
         THEN /\ globalFetch' = preInstallFetch
              /\ ~IsWrapper(globalFetch')
              /\ ~IsFetchRouterInstalled'
         ELSE /\ globalFetch' = globalFetch
              /\ ~IsFetchRouterInstalled']_vars

\* C9 witness: an uninstall after a re-install has put the mock fetch back.
C9_Witness ==
    /\ lastOp = "uninstall"
    /\ reinstalled
    /\ globalFetch = MockFetch
    /\ ~IsFetchRouterInstalled

\* C10: a call of the installed wrapper whose URL matches no route makes
\* exactly one call of the original fetch, with the same input and init, and
\* answers with its result; no handler is started and nothing else changes.
C10_Passthrough ==
    [][\A r \in Reqs :
         (/\ req[r].pc = "idle"
          /\ req'[r].pc # "idle"
          /\ ~ShouldIntercept(InputUrl(req'[r].input)).match)
         => /\ origCalls' = Append(origCalls,
                                   [by |-> r, fn |-> originalFetch,
                                    input |-> req'[r].input, init |-> req'[r].init])
            /\ IsFetchRouterInstalled /\ ~IsWrapper(originalFetch)
            /\ req'[r].resp.body
                   = <<OrigResult(originalFetch, req'[r].input, req'[r].init)>>
            /\ req'[r].handler = "none"
            /\ req'[r].pc = "done"
            /\ \A q \in Reqs \ {r} : req'[q] = req[q]
            /\ UNCHANGED <<routerVars, storeVars>>]_vars

\* C10 witness: a call with an init argument was passed through.
C10_Witness ==
    \E r \in Reqs :
        /\ req[r].pc = "done"
        /\ req[r].resp.kind = "orig"
        /\ req[r].init.given
        /\ Cardinality(OrigCallsBy(r)) = 1

-----------------------------------------------------------------------------
\* Claims about completions.

\* The payloads of the frames "data: <payload>\n\n" a body is made of, in
\* order; a body that is not a sequence of such frames has no reading.
Malformed == <<Tok("#malformed")>>

RECURSIVE Frames(_)
Frames(body) ==
    IF body = <<>> THEN <<>>
    ELSE IF Len(body) >= 3 /\ body[1] = Tok("data: ") /\ body[3] = Tok("\n\n")
         THEN LET rest == Frames(SubSeq(body, 4, Len(body)))
              IN IF rest = Malformed THEN Malformed ELSE <<body[2]>> \o rest
         ELSE Malformed

\* One frame per chunk, in the order of the chunks.
ChunkFrames(chunks) == [i \in DOMAIN chunks |-> Json(chunks[i])]

\* The concatenation, in order, of the chunks' choices[0].delta.content.
RECURSIVE ConcatDeltas(_)
ConcatDeltas(chunks) ==
    IF chunks = <<>> THEN <<>>
    ELSE (IF Head(chunks).choices = <<>> \/ ~Head(chunks).choices[1].delta.has
          THEN <<>> ELSE Head(chunks).choices[1].delta.content)
         \o ConcatDeltas(Tail(chunks))

\* C4: the body of a plain streaming completion whose engine does not throw
\* is, at every moment, one frame "data: <JSON of chunk>\n\n" per chunk the
\* engine has yielded, in the engine's order; when the engine's stream ends
\* exactly one "data: [DONE]\n\n" frame follows and the body is closed.
C4_StreamFrames ==
    \A r \in DOMAIN req :
        (req[r].handler = "streaming" /\ req[r].thrown = "none") =>
            /\ Frames(req[r].resp.body)
                 = ChunkFrames(req[r].recv) \o (IF req[r].ended THEN <<Tok("[DONE]")>> ELSE <<>>)
            /\ req[r].resp.closed = req[r].ended
            /\ req[r].resp.closed = (req[r].pc = "done")

C4_Witness ==
    \E r \in DOMAIN req :
        /\ req[r].handler = "streaming"
        /\ req[r].pc = "done"
        /\ req[r].ended
        /\ Len(req[r].recv) = 2
        /\ req[r].recv[1] # req[r].recv[2]
        /\ req[r].recv[2] = UsageChunk

\* The messages in the store with one of the ids.
Stored(ids) == {m \in messages : m.id \in ids}

\* C1: a persistent completion issues no save of an assistant message while
\* its engine stream has not ended, and exactly one once it has; the content
\* saved is the concatenation, in arrival order, of the deltas of all the
\* chunks received (an absent delta counting as empty); the store holds
\* exactly that one assistant message for the request when the save did not
\* throw, and no chunk is received after the stream has ended.
C1_AssistantSavedOnce ==
    /\ [](\A r \in DOMAIN req :
            req[r].handler = "persistent" =>
                /\ ~req[r].ended => req[r].asstCalls = <<>> /\ req[r].asstIds = {}
                /\ req[r].ended => req[r].asstCalls = <<ConcatDeltas(req[r].recv)>>
                /\ (req[r].ended /\ req[r].thrown = "none") =>
                       /\ Cardinality(req[r].asstIds) = 1
                       /\ Cardinality(Stored(req[r].asstIds)) = 1
                       /\ \A m \in Stored(req[r].asstIds) :
                              /\ m.role = "assistant"
                              /\ m.conversationId = req[r].convId
                              /\ m.content = ConcatDeltas(req[r].recv))
    /\ []({m.id : m \in {x \in messages : x.role = "assistant"}}
            = UNION {req[r].asstIds : r \in DOMAIN req})
    /\ [][\A r \in DOMAIN req : req[r].ended => req'[r].recv = req[r].recv]_vars

C1_Witness ==
    \E r \in DOMAIN req :
        /\ req[r].handler = "persistent"
        /\ req[r].pc = "done"
        /\ req[r].ended
        /\ req[r].thrown = "none"
        /\ req[r].recv = <<ContentChunk(<<"a">>), ContentChunk(<<"b">>)>>
        /\ \E m \in messages : m.role = "assistant" /\ m.content = <<"a", "b">>

\* The request has made the call.
Called(r, call) == \E i \in DOMAIN req[r].log : req[r].log[i] = call

\* C2: when a persistent completion calls engine.chat.completions.create, its
\* saveMessage(role=user) has completed and its history has been loaded after
\* that, in this order; the user message is in the store and in the history
\* the messages for the engine are built from.
C2_UserSavedBeforeEngine ==
    \A r \in DOMAIN req :
        (req[r].handler = "persistent" /\ Called(r, "engineCreate")) =>
            /\ Len(req[r].log) >= 3
            /\ SubSeq(req[r].log, 1, 3) = <<"saveUser", "getMessages", "engineCreate">>
            /\ \E m \in messages :
                 /\ m.id = req[r].userMsgId
                 /\ m.role = "user"
                 /\ m.content = LastUserMessage(req[r].body.messages).content
            /\ \E i \in DOMAIN req[r].history : req[r].history[i].id = req[r].userMsgId
            /\ \E i \in DOMAIN req[r].engineArgs.messages :
                 req[r].engineArgs.messages[i]
                   = ChatMessage("user", LastUserMessage(req[r].body.messages).content)

C2_Witness ==
    \E r \in DOMAIN req :
        /\ req[r].handler = "persistent"
        /\ req[r].pc = "sm_create"
        /\ req[r].engineArgs.stream
        /\ Len(req[r].engineArgs.messages) = 2
        /\ req[r].engineArgs.messages[1].role = "system"

\* The calls of a persistent completion that can throw once its user
\* message is saved.
AfterUserSave == {"getMessages", "engineCreate", "stream", "saveAssistant"}

\* The last frame of a body.
LastFrame(body) ==
    LET f == Frames(body) IN IF f = <<>> THEN Malformed[1] ELSE f[Len(f)]

\* The caller is told of a server error: by a 500 response, or by the error
\* frame that ends a body already streaming.
ServerErrorOutcome(resp) ==
    \/ resp = JsonResponse(500, ServerError)
    \/ /\ resp.kind = "sse"
       /\ resp.closed
       /\ LastFrame(resp.body) = Json(ServerError)

\* C3: when the history load, the engine invocation, the engine stream or
\* the assistant save of a persistent completion throws, the step leaves the
\* stored messages and conversations as they are; from then on the user
\* message of the request is in the store, no assistant message is stored for
\* the request, the conversation the request created exists, and the
\* request has ended with a server_error outcome.
C3_FailureKeepsUserMessage ==
    /\ [](\A r \in DOMAIN req :
            (req[r].handler = "persistent" /\ req[r].thrown \in AfterUserSave) =>
                /\ \E m \in messages :
                     /\ m.id = req[r].userMsgId
                     /\ m.role = "user"
                     /\ m.conversationId = req[r].convId
                     /\ m.content = LastUserMessage(req[r].body.messages).content
                /\ req[r].asstIds = {}
                /\ req[r].created => req[r].convId \in DOMAIN conversations
                /\ req[r].pc = "done"
                /\ ServerErrorOutcome(req[r].resp))
    /\ [][\A r \in DOMAIN req :
            (req[r].thrown = "none" /\ req'[r].thrown # "none"
             /\ req'[r].handler = "persistent" /\ req[r].userMsgId # 0) =>
                /\ req'[r].thrown \in AfterUserSave
                /\ messages' = messages
                /\ conversations' = conversations]_vars

C3_Witness ==
    \E r \in DOMAIN req :
        /\ req[r].handler = "persistent"
        /\ req[r].thrown = "stream"
        /\ req[r].body.stream
        /\ req[r].created
        /\ req[r].recv # <<>>
        /\ \E m \in messages : m.id = req[r].userMsgId

\* The frames a streaming completion forwards for the chunks it received.
DataFrames(r) ==
    IF req[r].handler = "persistent"
    THEN [i \in DOMAIN req[r].recv |-> Json(Augmented(req[r].recv[i], req[r].convId))]
    ELSE ChunkFrames(req[r].recv)

\* The engine threw, at its invocation or in its stream.
EngineThrew(r) == req[r].thrown \in {"engineCreate", "stream"}

\* C5 as stated: every streaming body is eventually closed, and a closed
\* body ends with the [DONE] frame when the engine stream ended normally and
\* with the error frame when the engine threw, the chunks forwarded before it
\* staying in the body.
C5_DoneWhenEngineEnds ==
    /\ [](\A r \in DOMAIN req :
            (req[r].resp.kind = "sse" /\ req[r].resp.closed) =>
                /\ Frames(req[r].resp.body)
                     = DataFrames(r) \o <<LastFrame(req[r].resp.body)>>
                /\ req[r].ended => LastFrame(req[r].resp.body) = Tok("[DONE]")
                /\ EngineThrew(r) => LastFrame(req[r].resp.body) = Json(ServerError))
    /\ \A r \in ChatReqs : (req[r].resp.kind = "sse") ~> req[r].resp.closed

\* C5, amended: every streaming body is eventually closed; until then it
\* holds the frames of the chunks received and nothing else; a closed body
\* holds those frames and one terminal frame: [DONE] when the stream the
\* handler reads ended without a throw (for a persistent completion: the
\* engine stream ended and the assistant message was saved), and the error
\* frame when the engine threw in its stream, when the engine of a plain
\* completion threw at its invocation, or when the assistant save of a
\* persistent completion threw after the engine stream had ended. A closed
\* body does not change. A persistent completion whose engine throws at its
\* invocation has no streaming body: it is answered 500.
C5_TerminalFrame ==
    /\ [](\A r \in DOMAIN req :
            req[r].resp.kind = "sse" =>
                /\ ~req[r].resp.closed => Frames(req[r].resp.body) = DataFrames(r)
                /\ req[r].resp.closed =>
                     /\ Frames(req[r].resp.body)
                          = DataFrames(r) \o <<LastFrame(req[r].resp.body)>>
                     /\ LastFrame(req[r].resp.body)
                          = IF req[r].thrown = "none" THEN Tok("[DONE]") ELSE Json(ServerError)
                     /\ req[r].thrown = "none" =>
                          /\ req[r].ended
                          /\ req[r].handler = "persistent" => req[r].asstIds # {}
                     /\ req[r].thrown # "none" =>
                          \/ req[r].thrown = "stream"
                          \/ req[r].thrown = "engineCreate" /\ req[r].handler = "streaming"
                          \/ /\ req[r].thrown = "saveAssistant"
                             /\ req[r].handler = "persistent"
                             /\ req[r].ended)
    /\ [](\A r \in DOMAIN req :
            (req[r].handler = "persistent" /\ req[r].thrown = "engineCreate") =>
                req[r].resp = JsonResponse(500, ServerError))
    /\ [][\A r \in DOMAIN req : req[r].resp.closed => req'[r].resp = req[r].resp]_vars
    /\ \A r \in ChatReqs : (req[r].resp.kind = "sse") ~> req[r].resp.closed

C5_Witness ==
    \E r \in DOMAIN req :
        /\ req[r].handler = "persistent"
        /\ req[r].resp.kind = "sse"
        /\ req[r].resp.closed
        /\ req[r].ended
        /\ req[r].thrown = "saveAssistant"
        /\ req[r].recv # <<>>
        /\ LastFrame(req[r].resp.body) = Json(ServerError)

-----------------------------------------------------------------------------
\* Claims about the router's matching and the handlers' error responses.

\* The routes whose URL shape a path has, each with the id the shape names.
ShapesOf(path) ==
    LET n == Len(path)
        Ends(suffix) == n >= Len(suffix) /\ SubSeq(path, n - Len(suffix) + 1, n) = suffix
    IN (IF Ends(<<"v1", "chat", "completions">>) THEN {Match("chat-completions", Null)} ELSE {})
       \cup (IF Ends(<<"v1", "models">>) THEN {Match("models", Null)} ELSE {})
       \cup {Match("conversation-messages", id) :
                id \in {s \in Segments \ {""} : Ends(<<"v1", "conversations", s, "messages">>)}}
       \cup {Match("conversation-detail", id) :
                id \in {s \in Segments \ {""} : Ends(<<"v1", "conversations", s>>)}}
       \cup (IF Ends(<<"v1", "conversations">>) THEN {Match("conversations", Null)} ELSE {})

\* C11: the route and id the wrapper acts on are those of the one URL shape
\* the path of the fetched URL has, and no match when it has none (or the
\* URL does not parse); the same path gets the same answer under every host,
\* relative or absolute.
C11_RouteByPath ==
    \A r \in DOMAIN req :
        req[r].pc # "idle" =>
            LET url == req[r].input.url
                res == ShouldIntercept(url)
            IN /\ req[r].route = res.route /\ req[r].id = res.id
               /\ ~url.valid => res = NoMatch
               /\ url.valid =>
                    /\ Cardinality(ShapesOf(url.path)) <= 1
                    /\ res.match => ShapesOf(url.path) = {res}
                    /\ ~res.match => ShapesOf(url.path) = {} /\ res = NoMatch
                    /\ \A host \in Hosts : ShouldIntercept(Url(TRUE, host, url.path)) = res

C11_Witness ==
    \E r \in DOMAIN req :
        /\ req[r].pc # "idle"
        /\ req[r].input.url = Url(TRUE, "api.openai.com", <<"v1", "conversations", "c1", "messages">>)
        /\ req[r].route = "conversation-messages"
        /\ req[r].id = "c1"

\* { error: { ..., type: "server_error", code: "engine_not_ready" } } with status 503
EngineNotReady == JsonResponse(503, ErrorPayload("server_error", "engine_not_ready"))

\* The request has called neither the engine nor the store.
Untouched(q) ==
    /\ q.log = <<>>
    /\ q.engineArgs.messages = <<>>
    /\ q.userMsgId = 0
    /\ ~q.created
    /\ q.asstCalls = <<>>
    /\ q.history = <<>>

\* C12: a chat-completions request that arrives while the router's engine is
\* null is answered at once with 503 engine_not_ready, whatever its body
\* asks for, in a step that leaves the store as it is; a request answered so
\* has called neither the engine nor the store, and no request is answered
\* so while the router has an engine.
C12_EngineNotReady ==
    /\ [][\A r \in DOMAIN req :
            (req[r].pc = "idle" /\ req'[r].pc # "idle" /\ req'[r].route = "chat-completions") =>
                IF routerEngine = Null
                THEN /\ req'[r].resp = EngineNotReady
                     /\ req'[r].pc = "done"
                     /\ Untouched(req'[r])
                     /\ UNCHANGED storeVars
                ELSE req'[r].resp # EngineNotReady /\ req'[r].pc # "done"]_vars
    /\ [](\A r \in DOMAIN req :
            req[r].resp.status = 503 =>
                req[r].resp = EngineNotReady /\ req[r].pc = "done" /\ Untouched(req[r]))

C12_Witness ==
    \E r \in DOMAIN req :
        /\ req[r].resp = EngineNotReady
        /\ req[r].init.body.persist
        /\ req[r].init.body.stream
        /\ routerEngine = Null
        /\ clientEngine # Null

\* C13: a chat-completions request that arrives while the router has an
\* engine and whose body is not JSON is answered 400 invalid_request_error
\* when request.json() has thrown, in a step that leaves the store as it is,
\* and has called neither the engine nor the store.
C13_InvalidJson ==
    /\ [](\A r \in DOMAIN req :
            (req[r].route = "chat-completions" /\ ~req[r].init.body.json
             /\ req[r].pc \notin {"idle", "cc_json"} /\ req[r].resp # EngineNotReady) =>
                /\ req[r].resp = InvalidRequest
                /\ req[r].resp.status = 400
                /\ req[r].resp.body[1].json.error.type = "invalid_request_error"
                /\ req[r].pc = "done"
                /\ Untouched(req[r]))
    /\ [][\A r \in DOMAIN req :
            (req[r].pc = "cc_json" /\ req'[r].pc # "cc_json" /\ ~req[r].init.body.json) =>
                UNCHANGED storeVars]_vars

C13_Witness ==
    \E r \in DOMAIN req :
        /\ req[r].route = "chat-completions"
        /\ ~req[r].init.body.json
        /\ req[r].resp = InvalidRequest
        /\ routerEngine # Null

\* C14 as stated: a chat-completions request whose body is JSON without a
\* messages array is answered with an invalid_request_error of the client
\* class, and does not call the engine.
C14_MissingMessages ==
    \A r \in DOMAIN req :
        (req[r].route = "chat-completions" /\ req[r].init.body.json
         /\ ~req[r].init.body.hasMessages /\ req[r].pc \notin {"idle", "cc_json"}
         /\ req[r].resp # EngineNotReady) =>
            /\ req[r].resp = InvalidRequest
            /\ ~Called(r, "engineCreate")

\* C15: a persistent completion whose messages hold no user message is
\* answered 400 invalid_request_error by the step that parsed its body; that
\* step leaves the store as it is, and the request has created no
\* conversation, saved no message and not called the engine.
C15_NoUserMessage ==
    /\ [](\A r \in DOMAIN req :
            (req[r].route = "chat-completions" /\ req[r].init.body.json
             /\ IsPersistent(req[r].init.body)
             /\ (\A i \in DOMAIN req[r].init.body.messages :
                    req[r].init.body.messages[i].role # "user")
             /\ req[r].pc \notin {"idle", "cc_json"} /\ req[r].resp # EngineNotReady) =>
                /\ req[r].resp = InvalidRequest
                /\ req[r].pc = "done"
                /\ Untouched(req[r]))
    /\ [][\A r \in DOMAIN req :
            (req[r].pc = "cc_json" /\ req'[r].resp = InvalidRequest) =>
                UNCHANGED storeVars]_vars

C15_Witness ==
    \E r \in DOMAIN req :
        /\ req[r].resp = InvalidRequest
        /\ req[r].init.body.persist
        /\ req[r].init.body.messages = <<ChatMessage("system", <<"s">>)>>
        /\ conversations = <<>>
        /\ messages = {}

-----------------------------------------------------------------------------
\* Claims about what a persistent completion stores and returns.

\* text is the first TitleLength characters of content, followed by "..."
\* if and only if content is longer.
IsTitleOf(text, content) ==
    LET kept == IF Len(content) < TitleLength THEN Len(content) ELSE TitleLength
    IN /\ \A i \in 1..kept : text[i] = content[i]
       /\ IF Len(content) > TitleLength
          THEN Len(text) = kept + 3 /\ \A i \in kept + 1..kept + 3 : text[i] = "."
          ELSE Len(text) = kept

\* C16: a persistent completion without a conversation id creates a
\* conversation in one step, and at most once: the step adds exactly one
\* record, titled by the last user message's content cut to 50 characters
\* (with "..." if and only if it was longer) and carrying the model id
\* active at that moment; the user message the request then saves is saved
\* under this conversation. A request that supplied an id creates none.
C16_NewConversation ==
    /\ [][\A r \in DOMAIN req :
            (~req[r].created /\ req'[r].created) =>
                /\ req[r].body.conversation_id = Null
                /\ req'[r].convId \notin DOMAIN conversations
                /\ DOMAIN conversations' = DOMAIN conversations \cup {req'[r].convId}
                /\ \A id \in DOMAIN conversations : conversations'[id] = conversations[id]
                /\ IsTitleOf(conversations'[req'[r].convId].title,
                             LastUserMessage(req[r].body.messages).content)
                /\ conversations'[req'[r].convId].modelId = currentModelId
                /\ messages' = messages]_vars
    /\ [][\A r \in DOMAIN req :
            req[r].created => req'[r].created /\ req'[r].convId = req[r].convId]_vars
    /\ [][DOMAIN conversations' # DOMAIN conversations =>
            \E r \in DOMAIN req : ~req[r].created /\ req'[r].created]_vars
    /\ [](\A r \in DOMAIN req :
            req[r].handler = "persistent" =>
                /\ req[r].created => req[r].body.conversation_id = Null
                /\ (req[r].body.conversation_id = Null /\ req[r].pc \notin {"sm_getdb", "done"})
                     => req[r].created
                /\ req[r].userMsgId # 0 =>
                     /\ req[r].created = (req[r].body.conversation_id = Null)
                     /\ \E m \in messages :
                          /\ m.id = req[r].userMsgId
                          /\ m.conversationId = req[r].convId
                          /\ m.content = LastUserMessage(req[r].body.messages).content
                     /\ req[r].created => req[r].convId \in DOMAIN conversations)
    /\ [](Cardinality(DOMAIN conversations)
            = Cardinality({r \in DOMAIN req : req[r].created}))

C16_Witness ==
    \E r \in DOMAIN req :
        /\ req[r].created
        /\ req[r].userMsgId # 0
        /\ Len(LastUserMessage(req[r].body.messages).content) = TitleLength + 1
        /\ Len(conversations[req[r].convId].title) = TitleLength + 3
        /\ conversations[req[r].convId].modelId = "m2"

\* The JSON values written to a response's body, in order.
JsonValues(resp) ==
    LET at == {i \in DOMAIN resp.body : "json" \in DOMAIN resp.body[i]}
    IN [i \in at |-> resp.body[i].json]

\* value is an object with a conversation_id member equal to convId.
CarriesId(value, convId) ==
    /\ "conversation_id" \in DOMAIN value
    /\ value.conversation_id = convId

\* C17 as stated: every data frame of a persistent completion's streaming
\* body and its buffered completion object have the conversation id as
\* their conversation_id, and a request that created a conversation has told
\* its id in the response by the time it ends.
C17_CarriesConversationId ==
    \A r \in DOMAIN req :
        req[r].handler = "persistent" =>
            /\ (req[r].resp.kind = "sse" \/ req[r].resp.status = 200) =>
                 \A i \in DOMAIN JsonValues(req[r].resp) :
                     CarriesId(JsonValues(req[r].resp)[i], req[r].convId)
            /\ (req[r].created /\ req[r].pc = "done") =>
                 \E i \in DOMAIN JsonValues(req[r].resp) :
                     CarriesId(JsonValues(req[r].resp)[i], req[r].convId)

\* The messages that are not system messages, in order.
NonSystem(msgs) == FilterRole(msgs, "system", FALSE)

-----------------------------------------------------------------------------
\* Claims about plain completions.

\* How many times the request has made the call.
Calls(r, call) == Cardinality({i \in DOMAIN req[r].log : req[r].log[i] = call})

\* C19: a plain non-streaming completion invokes the engine at most once,
\* and exactly once when it goes on to answer from the engine's result; the
\* invocation is of the router's engine, with stream = false, the messages
\* of the request body and its generation parameters, each under its own
\* name and the output limit as max_tokens (max_completion_tokens standing
\* in when max_tokens is not given); the answer is then status 200 with the
\* object the engine resolved to, unchanged, as its whole JSON body.
C19_NonStreaming ==
    /\ [](\A r \in DOMAIN req :
            req[r].handler = "non-streaming" =>
                LET given == req[r].body.params
                    args == req[r].engineArgs
                IN /\ Calls(r, "engineCreate") <= 1
                   /\ (req[r].pc = "ns_create" \/ req[r].thrown = "none")
                        => Calls(r, "engineCreate") = 1
                   /\ Calls(r, "engineCreate") = 1 =>
                        /\ args.messages = req[r].body.messages
                        /\ ~args.stream
                        /\ args.params.temperature = given.temperature
                        /\ args.params.top_p = given.top_p
                        /\ args.params.frequency_penalty = given.frequency_penalty
                        /\ args.params.presence_penalty = given.presence_penalty
                        /\ args.params.stop = given.stop
                        /\ args.params.n = given.n
                        /\ args.params.max_tokens =
                             IF given.max_tokens # Unset THEN given.max_tokens
                             ELSE given.max_completion_tokens
                   /\ (req[r].pc = "done" /\ req[r].thrown = "none") =>
                        /\ req[r].result \in EngineResults
                        /\ req[r].resp.status = 200
                        /\ req[r].resp.kind = "json"
                        /\ req[r].resp.closed
                        /\ req[r].resp.body = <<Json(req[r].result)>>)
    /\ [][\A r \in DOMAIN req :
            (req[r].pc # "ns_create" /\ req'[r].pc = "ns_create") =>
                /\ routerEngine # Null
                /\ req'[r].engineArgs.engine = routerEngine]_vars

C19_Witness ==
    \E r \in DOMAIN req :
        /\ req[r].handler = "non-streaming"
        /\ req[r].pc = "done"
        /\ req[r].thrown = "none"
        /\ req[r].body.params = AllParams
        /\ req[r].engineArgs.params.max_tokens = "100"
        /\ req[r].engineArgs.params.top_p = "0.9"
        /\ req[r].resp = JsonResponse(200, [object |-> "chat.completion", content |-> <<"b">>])

-----------------------------------------------------------------------------
\* Claims about applySlidingWindow.

\* The positions of a list that hold a system message, and the others.
SystemAt(msgs) == {i \in DOMAIN msgs : msgs[i].role = "system"}
OtherAt(msgs) == DOMAIN msgs \ SystemAt(msgs)

\* The j-th smallest member of a set of positions.
Nth(S, j) == CHOOSE i \in S : Cardinality({x \in S : x < i}) = j - 1

SystemsOf(msgs) == [j \in 1..Cardinality(SystemAt(msgs)) |-> msgs[Nth(SystemAt(msgs), j)]]

\* Every system message of the list stands before every other message.
SystemsFirst(msgs) == \A i \in SystemAt(msgs), j \in OtherAt(msgs) : i < j

\* C21 as stated: for every list and every maxMessages the result holds the
\* system messages of the list, in the list's order, before every other
\* message.
C21_SystemsAlwaysFirst ==
    window.applied =>
        /\ SystemsOf(window.result) = SystemsOf(window.messages)
        /\ SystemsFirst(window.result)

\* C21: for every list and every maxMessages the result holds the system
\* messages of the list, each as it was and in the list's order; when the
\* list is longer than maxMessages they stand before every other message
\* of the result, wherever they stood in the list; when it is not, the
\* result is the list, and a system message stays where it stood.
C21_SystemsFirstWhenTrimmed ==
    window.applied =>
        /\ SystemsOf(window.result) = SystemsOf(window.messages)
        /\ Len(window.messages) > window.maxMessages => SystemsFirst(window.result)
        /\ Len(window.messages) <= window.maxMessages => window.result = window.messages

\* A list longer than maxMessages whose system messages stand between and
\* after the others.
C21_Witness ==
    /\ window.applied
    /\ window.maxMessages = 1
    /\ Len(window.messages) = 4
    /\ SystemAt(window.messages) = {2, 4}
    /\ window.result = <<window.messages[2], window.messages[4], window.messages[3]>>

-----------------------------------------------------------------------------
\* Claims about the store's records.

\* The messages a step saves under a conversation that exists.
SavedUnderParent == {m \in messages' \ messages : m.conversationId \in DOMAIN conversations}

\* C23 as stated: a save under an existing conversation leaves the parent's
\* updatedAt equal to the message's timestamp and strictly greater than it
\* was before the save.
C23_TouchAdvances ==
    [][\A m \in SavedUnderParent :
         /\ m.conversationId \in DOMAIN conversations'
         /\ conversations'[m.conversationId].updatedAt = m.timestamp
         /\ conversations'[m.conversationId].updatedAt
              > conversations[m.conversationId].updatedAt]_vars

\* C24 as stated: every stored conversation has updatedAt >= createdAt.
C24_UpdatedNotBeforeCreated ==
    \A id \in DOMAIN conversations :
        conversations[id].updatedAt >= conversations[id].createdAt

\* C25 as stated: getMessages(id) returns the messages of a conversation in
\* non-decreasing order of timestamp, and in the order of their saves.
C25_TimestampAndSaveOrder ==
    \A id \in ConvIds :
        LET result == GetMessages(id)
        IN \A i, j \in DOMAIN result :
             i < j => /\ result[i].timestamp <= result[j].timestamp
                      /\ result[i].seq < result[j].seq

\* C26 as stated: of two messages of a conversation with equal timestamps,
\* getMessages returns the one inserted first before the other.
C26_TiesInInsertionOrder ==
    \A id \in ConvIds :
        LET result == GetMessages(id)
        IN \A i, j \in DOMAIN result :
             (i < j /\ result[i].timestamp = result[j].timestamp)
                => result[i].seq < result[j].seq

\* The step in which an updateConversation call returns or throws.
UpdateReturns(p) == proc[p].pc = "upd_read" /\ proc'[p].pc = "idle"

\* C28: updateConversation never creates a conversation record: on an absent
\* id it fails with not-found and writes nothing, and the step in which an
\* update writes never adds a conversation to the store, however the update
\* interleaves with deleteConversation(id).
C28_UpdateNeverCreates ==
    [][\A p \in Procs :
         UpdateReturns(p) =>
           /\ DOMAIN conversations' \subseteq DOMAIN conversations
           /\ proc[p].existing.id = Null =>
                /\ proc'[p].result = "notfound"
                /\ conversations' = conversations]_vars


\* The messages of a list that are stored under another conversation than id.
Foreign(msgs, id) == {i \in DOMAIN msgs : msgs[i].conversationId # id}

\* C27: in every reachable state getMessages(B) and getMessageCount(B) cover
\* only messages whose conversationId is B: no message saved under another
\* conversation is in the list or in the count, and the history a completion
\* for B has loaded and the user texts it hands to the model are B's own,
\* also while completions for both conversations are in flight.
C27_Isolation ==
    /\ \A B \in ConvIds :
         /\ Foreign(GetMessages(B), B) = {}
         /\ GetMessageCount(B) <= Cardinality({m \in messages : m.conversationId = B})
         /\ GetMessageCount(B) = Len(GetMessages(B))
    /\ \A r \in DOMAIN req :
         /\ Foreign(req[r].history, req[r].convId) = {}
         /\ \A i \in DOMAIN req[r].engineArgs.messages :
              req[r].engineArgs.messages[i].role = "user" =>
                req[r].engineArgs.messages[i].content = TextOf(req[r].convId)

\* Two completions for different conversations are in flight, and one has
\* loaded its history after the other's user message was saved.
C27_Witness ==
    \E r1, r2 \in DOMAIN req :
      /\ req[r1].convId = "c1" /\ req[r2].convId = "c2"
      /\ req[r1].pc = "ps_loop" /\ req[r2].pc = "ps_loop"
      /\ \E m \in messages, i \in DOMAIN req[r1].history :
           m.conversationId = "c2" /\ m.seq < req[r1].history[i].seq


\* The method of a request that handleConversationDetail has taken up.
DetailMethod(r) == IF IsDetail(req[r]) THEN ToUpperCase(req[r].init.method) ELSE "none"

\* The step in which the transaction of request r's deleteConversation runs.
DeleteRuns(r) == req[r].pc = "cd_del_read" /\ req'[r].pc = "cd_deleted"

\* The messages of the store that getMessages(id) lists, before and after a step.
Listed(id) == {m \in messages : InRange(m, id)}
ListedAfter(id) == {m \in messages' : InRange(m, id)}

UpdatePuts(r) == req[r].pc = "cd_upd_read" /\ req'[r].pc = "cd_upd_put"

\* C29: a PATCH that provides only some of title and model_id changes only
\* what it provides (and updatedAt): the record it puts has the id and the
\* createdAt of the record it read, the title of the body if there is one
\* and the title read if not, and likewise the model id.
C29_PartialUpdate ==
    [][\A r \in DOMAIN req :
         UpdatePuts(r) =>
           LET stored == conversations'[req[r].id]
               before == req[r].existing
               body == req[r].body
           IN /\ stored.id = before.id
              /\ stored.createdAt = before.createdAt
              /\ stored.title = IF body.title # NoTitle THEN body.title ELSE before.title
              /\ stored.modelId = IF body.model_id # Unset THEN body.model_id
                                  ELSE before.modelId]_vars

\* C30: every 200 answer to PATCH /v1/conversations/{id} carries a
\* conversation record, the one of the id, as its JSON body.
C30_PatchAnswersRecord ==
    \A r \in DOMAIN req :
      (DetailMethod(r) \in {"PATCH", "PUT"} /\ req[r].pc = "done" /\ req[r].resp.status = 200) =>
        /\ Len(req[r].resp.body) = 1
        /\ req[r].resp.body[1].json.id = req[r].id


\* C40: for every N >= 0 the output of applySlidingWindow(messages, N) holds
\* at most N non-system messages; with N = 0 and a non-empty list it holds
\* the system messages and nothing else.
C40_AtMostN ==
    window.applied =>
      /\ Len(FilterRole(window.result, "system", FALSE)) <= window.maxMessages
      /\ (window.maxMessages = 0 /\ window.messages # <<>>) =>
           window.result = FilterRole(window.messages, "system", TRUE)


\* The method of a request that a conversation handler has taken up.
CrudMethod(r) == IF IsCrud(req[r]) THEN ToUpperCase(req[r].init.method) ELSE "none"

\* A response of status 404 whose body is the JSON text of an error payload.
IsNotFound(resp) ==
    /\ resp.status = 404
    /\ resp.kind = "json"
    /\ Len(resp.body) = 1
    /\ DOMAIN resp.body[1].json = {"error"}

\* Request r takes a step.
Steps(r) == req'[r] # req[r]

\* C31: GET /v1/conversations/{id}, PATCH /v1/conversations/{id} and GET
\* /v1/conversations/{id}/messages answer 404 with an error payload when the
\* store holds no conversation under id at the handler's read (the
\* database being open), and the steps of such a request leave the store as it is.
C31_NotFound ==
    [][\A r \in DOMAIN req :
         LET absent == req[r].id \notin DOMAIN conversations IN
         /\ (/\ AwaitedDB(req[r])
             /\ req[r].route \in {"conversation-detail", "conversation-messages"}
             /\ CrudMethod(r) = "GET"
             /\ GotOpen(req[r])
             /\ faults' = faults
             /\ absent
             /\ Steps(r)) =>
              /\ req'[r].pc = "done"
              /\ IsNotFound(req'[r].resp)
              /\ UNCHANGED storeVars
         /\ (req[r].pc = "cd_json" /\ HandleOpen(req[r].db) /\ absent /\ Steps(r)) =>
              /\ req'[r].pc = "cd_upd_read"
              /\ req'[r].existing = NoConv
              /\ UNCHANGED storeVars
         /\ (req[r].pc = "cd_upd_read" /\ req[r].existing = NoConv /\ Steps(r)) =>
              /\ req'[r].pc = "done"
              /\ IsNotFound(req'[r].resp)
              /\ UNCHANGED storeVars]_vars

\* A PATCH and a listing of the messages, both addressed to an id the store
\* does not hold, have been answered 404, and the store is as it was.
C31_Witness ==
    \E r1, r2 \in DOMAIN req :
      /\ req[r1].route = "conversation-detail" /\ CrudMethod(r1) = "PATCH" /\ req[r1].id = "c3"
      /\ req[r2].route = "conversation-messages" /\ CrudMethod(r2) = "GET" /\ req[r2].id = "c3"
      /\ req[r1].pc = "done" /\ IsNotFound(req[r1].resp)
      /\ req[r2].pc = "done" /\ IsNotFound(req[r2].resp)
      /\ req[r1].log = <<"updateConversation">>
      /\ DOMAIN conversations = {"c1"}
      /\ Cardinality(messages) = 1


\* A call of the store failed in the handler of request q: a call threw, and
\* the throw is not updateConversation's for a record that is absent.
StoreFailed(q) ==
    /\ q.thrown # "none"
    /\ ~(q.thrown = "updateConversation" /\ q.fields # NoFields /\ q.existing = NoConv)

\* C32: when a store operation fails inside a conversation handler, the
\* fetch call resolves to a response with a server-error status whose body
\* is { error: { message, type, ... } }: the promise does not reject, and the
\* failure is not answered 404.
C32_StoreFailureIsServerError ==
    \A r \in DOMAIN req :
      (req[r].pc = "done" /\ IsCrud(req[r]) /\ StoreFailed(req[r])) =>
        /\ req[r].resp.kind = "json"
        /\ req[r].resp.status >= 500
        /\ {"message", "type"} \subseteq DOMAIN req[r].resp.body[1].json.error


\* The step in which request r's listConversations reads the store and is answered.
ListAnswered(r) ==
    /\ req[r].route = "conversations"
    /\ CrudMethod(r) = "GET"
    /\ Steps(r)
    /\ req'[r].resp.status = 200

\* The list a 200 answer to GET /v1/conversations carries.
ListData(resp) == resp.body[1].json.data

\* C34: listConversations returns every stored conversation exactly once,
\* as it is stored when the call is made, ordered by updatedAt descending;
\* so a conversation under which a message with a newer timestamp was
\* saved stands before the conversations updated earlier.
C34_ListOrdered ==
    [][\A r \in DOMAIN req :
         ListAnswered(r) =>
           LET list == ListData(req'[r].resp) IN
           /\ Len(list) = Cardinality(DOMAIN conversations)
           /\ \A id \in DOMAIN conversations : \E i \in DOMAIN list : list[i] = conversations[id]
           /\ \A i, j \in DOMAIN list : i < j => list[i].updatedAt >= list[j].updatedAt
           /\ \A i, j \in DOMAIN list :
                (\E m \in messages : /\ m.conversationId = list[i].id
                                     /\ m.timestamp = list[i].updatedAt
                                     /\ m.timestamp > list[j].updatedAt) => i < j]_vars

\* A conversation was created after c1, then a message with a newer
\* timestamp was saved under c1, and the list answered has c1 first.
C34_Witness ==
    \E r \in DOMAIN req :
      /\ req[r].route = "conversations" /\ CrudMethod(r) = "GET"
      /\ req[r].pc = "done" /\ req[r].resp.status = 200
      /\ Len(ListData(req[r].resp)) = 2
      /\ ListData(req[r].resp)[1].id = "c1"
      /\ ListData(req[r].resp)[1].updatedAt = 3
      /\ ListData(req[r].resp)[2].createdAt = 2
      /\ ListData(req[r].resp)[1].createdAt = 1

\* C36: every handle a conversation handler obtains from getDB() is open,
\* also when the call arrives while another caller's open() is pending or
\* after it has failed.
C36_HandlesOpen ==
    [][\A r \in DOMAIN req :
         (AwaitedDB(req[r]) /\ IsCrud(req[r]) /\ Steps(r) /\ faults' = faults) =>
           GotOpen(req[r])]_vars

\* C39: a plain non-streaming completion that passed the readiness check
\* calls the engine that was installed when the check was made: it neither
\* finds the reference null nor calls an engine installed later.
C39_EngineAtCheck ==
    \A r \in ChatReqs :
        req[r].handler = "non-streaming" =>
            /\ req[r].thrown # "engineCreate"
            /\ req[r].engineArgs.engine = req[r].checked

\* The engine a completion was executed by, once it has called one.
CalledEngine(r) == req[r].engineArgs.engine

\* C35: the completions the router serves, plain and persistent, are
\* executed by the engine the router holds: a completion that passed the
\* readiness check is not failed for want of an engine by sendMessage, and
\* the engine a persistent completion calls is the one the router held when
\* it made the check.
C35_OneEngine ==
    \A r \in ChatReqs :
        /\ req[r].thrown # "sendMessage"
        /\ req[r].handler = "persistent" /\ CalledEngine(r) # Null =>
               CalledEngine(r) = req[r].checked

\* C38: every stored message belongs to a conversation of the store: a
\* persistent completion whose conversation_id names no conversation saves
\* no message. (No conversation is deleted in the behaviours checked.)
C38_MessagesOwned ==
    \A msg \in messages : msg.conversationId \in DOMAIN conversations

\* The step reports the end of the persistent completion r to its caller:
\* the [DONE] frame is enqueued, or the non-streaming response is returned.
ReportsEnd(r) ==
    /\ req[r].handler = "persistent"
    /\ req[r].resp # req'[r].resp
    /\ \/ /\ req'[r].resp.kind = "sse"
          /\ req'[r].resp.body = req[r].resp.body \o SseDone
       \/ /\ req'[r].resp.kind = "json"
          /\ req'[r].resp.status = 200

\* The assistant message of the completion r is in the store.
AssistantStored(r) ==
    \E msg \in messages :
        /\ msg.id \in req[r].asstIds
        /\ msg.role = "assistant"
        /\ msg.conversationId = req[r].convId
        /\ msg.content = req[r].fullContent

\* C37: a persistent completion reports its end, by the [DONE] frame or by
\* the non-streaming response, only when the assistant message has been
\* stored: the save's transaction was made in an earlier step.
C37_DoneAfterSave ==
    [][\A r \in ChatReqs : ReportsEnd(r) => AssistantStored(r)]_vars

C37_Witness ==
    \E r \in ChatReqs :
        /\ req[r].handler = "persistent"
        /\ req[r].body.stream
        /\ req[r].resp.closed
        /\ LastFrame(req[r].resp.body) = Tok("[DONE]")
        /\ req[r].recv # <<>>
        /\ AssistantStored(r)

\* C33: an operation of the store called while the instance is not open
\* (after close(), until a new open() has resolved) fails with the not-open
\* error and leaves both stores as they were, whichever of the nine it is.
C33_ClosedFails ==
    [][(~EnsureOpen /\ opCount' # opCount) =>
          /\ UNCHANGED <<conversations, messages>>
          /\ \E p \in Procs :
                /\ proc[p].pc = "idle"
                /\ proc'[p].pc = "idle"
                /\ proc'[p].op \in StoreOps
                /\ proc'[p].result = "notopen"
                /\ \A q \in Procs \ {p} : proc'[q] = proc[q]]_vars

C33_Witness ==
    /\ dbs.direct = "closed"
    /\ conversations # <<>>
    /\ messages # {}
    /\ \E p \in Procs : proc[p].result = "notopen" /\ proc[p].op = "clearAll"
    /\ \E p \in Procs : proc[p].result = "notopen" /\ proc[p].op = "saveMessage"

=============================================================================
